---- MODULE Spec2Model ----
(***************************************************************************)
(* Agent Spaces: the run executor (executeRun), the run service            *)
(* (RunService.create / resume / cancel) and the policy engine they        *)
(* consult, modelled as a state machine over one space and one persisted   *)
(* run row.                                                                *)
(*                                                                         *)
(* Strings are sequences of one-character strings, so that                 *)
(* String.includes, trim, indexOf and the glob match are computed and not  *)
(* assumed.                                                                *)
(***************************************************************************)
EXTENDS Integers, Sequences, FiniteSets, TLC

(***************************************************************************)
(* Bounds of the model.                                                    *)
(***************************************************************************)
\* longest submitted operations vector
MaxOps == 2
\* number of resume decisions accepted for one run
MaxResumes == 2
\* number of run service calls made while calls overlap
MaxCalls == 3
\* longest command handed to the shell rules
MaxCommandLen == 4
\* longest path handed to the filesystem rules
MaxPathLen == 3
\* most segments of a path handed to a sandbox filesystem primitive
MaxSegs == 2
\* ids handed out by SpaceService.create
MaxSpaces == 2
\* destroy calls made for one id
MaxDestroys == 2
\* exec calls made on one sandbox
MaxExecs == 2

(***************************************************************************)
(* Limits of the protocol schema.                                          *)
(***************************************************************************)
MAX_PATH_LENGTH == 255
MAX_COMMAND_LENGTH == 4096
MAX_CONTENT_LENGTH == 10485760
MAX_MESSAGE_LENGTH == 100000
MIN_TIMEOUT == 1000
MAX_TIMEOUT == 3600000

(***************************************************************************)
(* Strings.                                                                *)
(***************************************************************************)
\* String.prototype.includes: p occurs in s as a contiguous run
Includes(s, p) ==
  \E i \in 0..(Len(s) - Len(p)) : SubSeq(s, i + 1, i + Len(p)) = p

\* the white space String.prototype.trim removes, as far as the model's
\* alphabets hold it
WhiteSpace == {" ", "\t", "\n"}

RECURSIVE TrimStart(_)
TrimStart(s) ==
  IF s # <<>> /\ Head(s) \in WhiteSpace THEN TrimStart(Tail(s)) ELSE s

RECURSIVE TrimEnd(_)
TrimEnd(s) ==
  IF s # <<>> /\ s[Len(s)] \in WhiteSpace
  THEN TrimEnd(SubSeq(s, 1, Len(s) - 1)) ELSE s

\* String.prototype.trim
Trim(s) == TrimEnd(TrimStart(s))

\* String.prototype.indexOf(' '), 0-based, -1 when there is none
IndexOfSpace(s) ==
  IF \E i \in 1..Len(s) : s[i] = " "
  THEN (CHOOSE i \in 1..Len(s) : s[i] = " " /\ \A j \in 1..(i - 1) : s[j] # " ") - 1
  ELSE -1

\* Array.prototype.some over a list
Some(list, P(_)) == \E i \in 1..Len(list) : P(list[i])

(***************************************************************************)
(* Shell rules.                                                            *)
(***************************************************************************)
extractBaseCommand(command) ==
  LET trimmed == Trim(command)
      firstSpace == IndexOfSpace(trimmed)
  IN IF firstSpace = -1 THEN trimmed ELSE SubSeq(trimmed, 1, firstSpace)

shellMatchesAnyPattern(command, patterns) ==
  LET hit(p) == Includes(command, p) IN Some(patterns, hit)

\* The PolicyEvaluation values; reason/suggestion are kept as tags.
PolicyAllow == [allowed |-> TRUE, requiresApproval |-> FALSE,
                reason |-> "none", policy |-> "none"]

PolicyDeny(reason, tag) == [allowed |-> FALSE, requiresApproval |-> FALSE,
                            reason |-> reason, policy |-> tag]

\* the shell rules with the allowlist consulted before the blocked patterns
evaluateShellPolicyAllowlistFirst(policy, command) ==
  IF ~policy.enabled
  THEN PolicyDeny("Shell execution is disabled", "shell.enabled")
  ELSE IF Len(policy.allowedCommands) > 0
          /\ ~(\E i \in 1..Len(policy.allowedCommands) :
                 policy.allowedCommands[i] = extractBaseCommand(command))
  THEN PolicyDeny("Command is not in allowed commands", "shell.allowedCommands")
  ELSE IF shellMatchesAnyPattern(command, policy.blockedPatterns)
  THEN PolicyDeny("Command contains blocked pattern", "shell.blockedPatterns")
  ELSE IF shellMatchesAnyPattern(command, policy.approvalRequired)
  THEN [allowed |-> TRUE, requiresApproval |-> TRUE,
        reason |-> "Command requires approval", policy |-> "shell.approvalRequired"]
  ELSE PolicyAllow

evaluateShellPolicy(policy, command) ==
  IF ~policy.enabled
  THEN PolicyDeny("Shell execution is disabled", "shell.enabled")
  ELSE IF shellMatchesAnyPattern(command, policy.blockedPatterns)
  THEN PolicyDeny("Command contains blocked pattern", "shell.blockedPatterns")
  ELSE IF Len(policy.allowedCommands) > 0
          /\ ~(\E i \in 1..Len(policy.allowedCommands) :
                 policy.allowedCommands[i] = extractBaseCommand(command))
  THEN PolicyDeny("Command is not in allowed commands", "shell.allowedCommands")
  ELSE IF shellMatchesAnyPattern(command, policy.approvalRequired)
  THEN [allowed |-> TRUE, requiresApproval |-> TRUE,
        reason |-> "Command requires approval", policy |-> "shell.approvalRequired"]
  ELSE PolicyAllow

(***************************************************************************)
(* Filesystem rules.                                                       *)
(***************************************************************************)
\* new RegExp('^' + escaped pattern with * -> .* + '$').test(path), for
\* patterns and paths over letters, digits, '.', '/', '_' and '*'.
RECURSIVE matchesPattern(_, _)
matchesPattern(path, pattern) ==
  IF pattern = <<>> THEN path = <<>>
  ELSE IF Head(pattern) = "*"
  THEN \E k \in 0..Len(path) :
         matchesPattern(SubSeq(path, k + 1, Len(path)), Tail(pattern))
  ELSE path # <<>> /\ Head(path) = Head(pattern)
       /\ matchesPattern(Tail(path), Tail(pattern))

fsMatchesAnyPattern(path, patterns) ==
  LET hit(p) == matchesPattern(path, p) IN Some(patterns, hit)

\* the filesystem rules with the allowed paths consulted before the blocked
evaluateFilesystemPolicyAllowedFirst(policy, path, isWrite) ==
  IF ~policy.enabled
  THEN PolicyDeny("Filesystem access is disabled", "filesystem.enabled")
  ELSE IF isWrite /\ policy.readOnly
  THEN PolicyDeny("Filesystem is read-only", "filesystem.readOnly")
  ELSE IF Len(policy.allowedPaths) > 0
          /\ ~fsMatchesAnyPattern(path, policy.allowedPaths)
  THEN PolicyDeny("Path is not in allowed paths", "filesystem.allowedPaths")
  ELSE IF fsMatchesAnyPattern(path, policy.blockedPaths)
  THEN PolicyDeny("Path is blocked by policy", "filesystem.blockedPaths")
  ELSE PolicyAllow

evaluateFilesystemPolicy(policy, path, isWrite) ==
  IF ~policy.enabled
  THEN PolicyDeny("Filesystem access is disabled", "filesystem.enabled")
  ELSE IF isWrite /\ policy.readOnly
  THEN PolicyDeny("Filesystem is read-only", "filesystem.readOnly")
  ELSE IF fsMatchesAnyPattern(path, policy.blockedPaths)
  THEN PolicyDeny("Path is blocked by policy", "filesystem.blockedPaths")
  ELSE IF Len(policy.allowedPaths) > 0
          /\ ~fsMatchesAnyPattern(path, policy.allowedPaths)
  THEN PolicyDeny("Path is not in allowed paths", "filesystem.allowedPaths")
  ELSE PolicyAllow

evaluateFileSize(policy, size) ==
  IF size > policy.maxFileSize
  THEN PolicyDeny("File size exceeds limit", "filesystem.maxFileSize")
  ELSE PolicyAllow

(***************************************************************************)
(* Presets.  An absent optional list is the empty list: every use in the   *)
(* rules is `list && ...some(...)` or `list && list.length > 0`.           *)
(***************************************************************************)
restrictivePolicy ==
  [name |-> "restrictive",
   filesystem |-> [enabled |-> TRUE, readOnly |-> TRUE,
                   maxFileSize |-> 1024 * 1024,
                   blockedPaths |-> << <<".", "*">>,
                                       <<"*", ".", "e", "n", "v">>,
                                       <<"*", ".", "k", "e", "y">>,
                                       <<"*", ".", "p", "e", "m">> >>,
                   allowedPaths |-> << >>],
   shell |-> [enabled |-> FALSE, timeout |-> 10000,
              allowedCommands |-> << >>, blockedPatterns |-> << >>,
              approvalRequired |-> << >>]]

standardPolicy ==
  [name |-> "standard",
   filesystem |-> [enabled |-> TRUE, readOnly |-> FALSE,
                   maxFileSize |-> 10 * 1024 * 1024,
                   blockedPaths |-> << <<".", "*">>,
                                       <<"*", ".", "e", "n", "v">>,
                                       <<"*", ".", "k", "e", "y">>,
                                       <<"*", ".", "p", "e", "m">>,
                                       <<"n", "o", "d", "e", "_", "m", "o", "d",
                                         "u", "l", "e", "s">> >>,
                   allowedPaths |-> << >>],
   shell |-> [enabled |-> TRUE, timeout |-> 30000,
              allowedCommands |-> << <<"b", "u", "n">>, <<"n", "o", "d", "e">>,
                                     <<"n", "p", "m">>, <<"n", "p", "x">>,
                                     <<"c", "a", "t">>, <<"e", "c", "h", "o">>,
                                     <<"l", "s">>, <<"p", "w", "d">>,
                                     <<"h", "e", "a", "d">>, <<"t", "a", "i", "l">>,
                                     <<"g", "r", "e", "p">>, <<"f", "i", "n", "d">>,
                                     <<"w", "c">> >>,
              blockedPatterns |-> << <<"r", "m", " ", "-", "r", "f", " ", "/">>,
                                     <<"r", "m", " ", "-", "r", "f", " ", "~">>,
                                     <<"s", "u", "d", "o">>,
                                     <<"c", "h", "m", "o", "d">>,
                                     <<"c", "h", "o", "w", "n">>,
                                     <<"c", "u", "r", "l">>,
                                     <<"w", "g", "e", "t">>,
                                     <<"s", "s", "h">> >>,
              approvalRequired |-> << <<"r", "m", " ", "-", "r", "f">>,
                                      <<"r", "m", " ", "-", "r">> >>]]

permissivePolicy ==
  [name |-> "permissive",
   filesystem |-> [enabled |-> TRUE, readOnly |-> FALSE,
                   maxFileSize |-> 100 * 1024 * 1024,
                   blockedPaths |-> << <<"*", ".", "k", "e", "y">>,
                                       <<"*", ".", "p", "e", "m">> >>,
                   allowedPaths |-> << >>],
   shell |-> [enabled |-> TRUE, timeout |-> 300000,
              allowedCommands |-> << >>,
              blockedPatterns |-> << <<"r", "m", " ", "-", "r", "f", " ", "/">>,
                                     <<"r", "m", " ", "-", "r", "f", " ", "~">>,
                                     <<"s", "u", "d", "o">> >>,
              approvalRequired |-> << <<"r", "m", " ", "-", "r", "f">>,
                                      <<"r", "m", " ", "-", "r">>,
                                      <<"c", "h", "m", "o", "d">>,
                                      <<"c", "h", "o", "w", "n">> >>]]

PresetNames == {"restrictive", "standard", "permissive"}

getPreset(name) ==
  CASE name = "restrictive" -> restrictivePolicy
    [] name = "standard" -> standardPolicy
    [] name = "permissive" -> permissivePolicy

(***************************************************************************)
(* PolicyEngine.evaluate                                                   *)
(***************************************************************************)
evaluateCreateFile(policy, path, content) ==
  LET pathEval == evaluateFilesystemPolicy(policy.filesystem, path, TRUE)
      sizeEval == evaluateFileSize(policy.filesystem, Len(content))
  IN IF ~pathEval.allowed THEN pathEval
     ELSE IF ~sizeEval.allowed THEN sizeEval
     ELSE PolicyAllow

\* an engine that hands the text of a message to the shell rules
evaluateMessageAsCommand(policy, operation) ==
  CASE operation.type = "message" ->
         evaluateShellPolicy(policy.shell, operation.content)
    [] operation.type = "createFile" ->
         evaluateCreateFile(policy, operation.path, operation.content)
    [] operation.type = "readFile" ->
         evaluateFilesystemPolicy(policy.filesystem, operation.path, FALSE)
    [] operation.type = "editFile" ->
         evaluateFilesystemPolicy(policy.filesystem, operation.path, TRUE)
    [] operation.type = "deleteFile" ->
         evaluateFilesystemPolicy(policy.filesystem, operation.path, TRUE)
    [] operation.type = "shell" ->
         evaluateShellPolicy(policy.shell, operation.command)
    [] OTHER -> PolicyDeny("Unknown operation type", "none")

evaluate(policy, operation) ==
  CASE operation.type = "message" -> PolicyAllow
    [] operation.type = "createFile" ->
         evaluateCreateFile(policy, operation.path, operation.content)
    [] operation.type = "readFile" ->
         evaluateFilesystemPolicy(policy.filesystem, operation.path, FALSE)
    [] operation.type = "editFile" ->
         evaluateFilesystemPolicy(policy.filesystem, operation.path, TRUE)
    [] operation.type = "deleteFile" ->
         evaluateFilesystemPolicy(policy.filesystem, operation.path, TRUE)
    [] operation.type = "shell" ->
         evaluateShellPolicy(policy.shell, operation.command)
    [] OTHER -> PolicyDeny("Unknown operation type", "none")

(***************************************************************************)
(* Operations and events.                                                  *)
(***************************************************************************)
\* an operation submitted without `id` (the field is optional)
NoId == "NoId"

\* `operation.id || ''`
OrEmpty(id) == IF id = NoId \/ id = "" THEN "" ELSE id

Op(id, type, path, command, content) ==
  [id |-> id, type |-> type, path |-> path, command |-> command,
   content |-> content]

\* The operation bodies a batch is drawn from: every decision of every preset
\* occurs (allowed, denied by each kind of rule, approval-gated).
OpBodies ==
  { Op(NoId, "message", <<>>, <<>>, <<"h", "i">>),
    Op(NoId, "createFile", <<"a">>, <<>>, <<"x">>),
    Op(NoId, "shell", <<>>, <<"r", "m", " ", "-", "r", " ", "t">>, <<>>),
    Op(NoId, "shell", <<>>, <<"e", "c", "h", "o", " ", "r", "m", " ", "-", "r">>, <<>>) }

\* ids a caller may give an operation; they need not be distinct
OpIds == {NoId, "a", "b"}

Operations == { [b EXCEPT !.id = i] : b \in OpBodies, i \in OpIds }

\* String.prototype.startsWith
StartsWith(s, p) == Len(s) >= Len(p) /\ SubSeq(s, 1, Len(p)) = p

\* pathSchema with the traversal refinement left out
pathSchemaAllowsTraversal(path) ==
  /\ Len(path) <= 255
  /\ ~StartsWith(path, <<"/">>)

\* the null byte, as one character of a string
NUL == "NUL"

\* pathSchema with only its length limit
pathSchemaLengthOnly(path) == Len(path) <= MAX_PATH_LENGTH

\* pathSchema: at most MAX_PATH_LENGTH characters, relative, no `..`, no
\* null byte
pathSchema(path) ==
  /\ Len(path) <= MAX_PATH_LENGTH
  /\ ~StartsWith(path, <<"/">>)
  /\ ~Includes(path, <<".", ".">>)
  /\ ~Includes(path, <<NUL>>)

\* validatePath(path): the message of the PathValidationError thrown, "ok"
\* if the call returns
validatePath(path) ==
  IF StartsWith(path, <<"/">>) THEN "Path must be relative (no leading /)"
  ELSE IF Includes(path, <<".", ".">>)
  THEN "Path cannot contain parent directory traversal (..)"
  ELSE IF Includes(path, <<NUL>>) THEN "Path cannot contain null bytes"
  ELSE IF Len(path) > 255 THEN "Path exceeds maximum length of 255 characters"
  ELSE "ok"

\* isValidPath(path)
isValidPath(path) == validatePath(path) = "ok"

\* operationSchema: the discriminated union, by `type`
operationSchema(operation) ==
  CASE operation.type = "message" -> Len(operation.content) <= MAX_MESSAGE_LENGTH
    [] operation.type = "createFile" ->
         pathSchema(operation.path) /\ Len(operation.content) <= MAX_CONTENT_LENGTH
    [] operation.type \in {"readFile", "editFile", "deleteFile"} ->
         pathSchema(operation.path)
    [] operation.type = "shell" -> Len(operation.command) <= MAX_COMMAND_LENGTH
    [] OTHER -> FALSE

\* operationsMessageSchema.safeParse(...).success
operationsMessageSchema(operations) ==
  \A i \in 1..Len(operations) : operationSchema(operations[i])

\* operation bodies the protocol schema refuses: a path that climbs out of the
\* workspace, an absolute path
InvalidBodies ==
  { Op(NoId, "createFile", <<".", ".", "/", "e">>, <<>>, <<"x">>),
    Op(NoId, "createFile", <<"/", "e">>, <<>>, <<"x">>) }

\* what a client may put in the `operations` array of a request
RawOperations ==
  Operations \cup { [b EXCEPT !.id = i] : b \in InvalidBodies, i \in OpIds }

RECURSIVE SeqsUpTo(_, _)
SeqsUpTo(S, n) ==
  IF n = 0 THEN { <<>> }
  ELSE LET shorter == SeqsUpTo(S, n - 1)
       IN shorter \cup { Append(q, x) : q \in { r \in shorter : Len(r) = n - 1 }, x \in S }

\* ids are opaque strings the code only compares: a batch stands for every
\* batch got from it by renaming ids, so "b" is used only after "a"
IdsInOrder(operations) ==
  \A i \in 1..Len(operations) :
    operations[i].id = "b" => \E j \in 1..(i - 1) : operations[j].id = "a"

\* the `operations` arrays of the requests, up to MaxOps operations
Submissions == { q \in SeqsUpTo(RawOperations, MaxOps) : IdsInOrder(q) }

\* the batches that pass operationsMessageSchema
Batches == { q \in Submissions : operationsMessageSchema(q) }

\* the requests the route answers with VALIDATION_ERROR
InvalidBatches == Submissions \ Batches

Event(type, operationId, operationType, success, reason) ==
  [type |-> type, operationId |-> operationId, operationType |-> operationType,
   success |-> success, reason |-> reason]

NoPending == [isNull |-> TRUE, operationId |-> "", operationType |-> "",
              reason |-> "", policy |-> ""]

(***************************************************************************)
(* The run executor.                                                       *)
(***************************************************************************)
\* executeOperation forgetting to copy the operation's id into the event
executeOperationDropsId(operation, ok) ==
  IF operation.type = "message"
  THEN Event("message", NoId, "none", TRUE, "none")
  ELSE Event(operation.type, NoId, "none", ok, "none")

\* The event of an executed operation; `ok` is the success the sandbox
\* primitive returned (a message calls no primitive and always succeeds).
executeOperation(operation, ok) ==
  IF operation.type = "message"
  THEN Event("message", operation.id, "none", TRUE, "none")
  ELSE IF operation.type \in {"createFile", "readFile", "editFile", "deleteFile", "shell"}
  THEN Event(operation.type, operation.id, "none", ok, "none")
  ELSE Event("error", NoId, "none", FALSE, "Unknown operation type")

\* whether executeOperation calls a sandbox primitive for the operation
CallsSandbox(operation) ==
  operation.type \in {"createFile", "readFile", "editFile", "deleteFile", "shell"}

\* a denial that records no event
AfterDenySkipsEvent(acc, operation, policyResult) == acc

\* what the loop does after an operation the policy does not allow
AfterDeny(acc, operation, policyResult) ==
  [acc EXCEPT !.events =
     Append(@, Event("policyDenied", operation.id, operation.type, FALSE,
                     policyResult.reason))]

\* a gate that advertises `operation.id` without the `|| ''`
AfterGateRawId(acc, operation, policyResult) ==
  [acc EXCEPT !.events =
                 Append(@, Event("approvalRequired", OrEmpty(operation.id),
                                 operation.type, FALSE, policyResult.reason)),
              !.status = "awaiting_approval",
              !.pendingApproval =
                 [isNull |-> FALSE, operationId |-> operation.id,
                  operationType |-> operation.type,
                  reason |-> policyResult.reason,
                  policy |-> policyResult.policy],
              !.returned = TRUE]

\* a gate that records the suspension but lets the loop go on
AfterGateNoReturn(acc, operation, policyResult) ==
  [acc EXCEPT !.events =
                 Append(@, Event("approvalRequired", OrEmpty(operation.id),
                                 operation.type, FALSE, policyResult.reason)),
              !.status = "awaiting_approval",
              !.pendingApproval =
                 [isNull |-> FALSE, operationId |-> OrEmpty(operation.id),
                  operationType |-> operation.type,
                  reason |-> policyResult.reason,
                  policy |-> policyResult.policy]]

\* what the loop does at an operation that requires approval: it returns
AfterGate(acc, operation, policyResult) ==
  [acc EXCEPT !.events =
                 Append(@, Event("approvalRequired", OrEmpty(operation.id),
                                 operation.type, FALSE, policyResult.reason)),
              !.status = "awaiting_approval",
              !.pendingApproval =
                 [isNull |-> FALSE, operationId |-> OrEmpty(operation.id),
                  operationType |-> operation.type,
                  reason |-> policyResult.reason,
                  policy |-> policyResult.policy],
              !.returned = TRUE]

\* a loop that gives up the batch when an operation fails
AfterAllowHaltsOnFailure(acc, operation, i, ok) ==
  [acc EXCEPT !.events = Append(@, Event(operation.type, operation.id, "none",
                                         ok \/ operation.type = "message", "none")),
              !.dispatched = IF operation.type # "message" THEN Append(@, i) ELSE @,
              !.returned = ~(ok \/ operation.type = "message")]

\* what the loop does with an allowed operation: dispatch and record the event
AfterAllow(acc, operation, i, ok) ==
  [acc EXCEPT !.events = Append(@, executeOperation(operation, ok)),
              !.dispatched = IF CallsSandbox(operation) THEN Append(@, i) ELSE @]

\* policyEngine.evaluate(operation) for the engine built from a preset; the
\* rules read no `id`, so the decisions are tabulated per operation body
Decisions ==
  [p \in PresetNames |->
     [b \in OpBodies \cup InvalidBodies |-> evaluate(getPreset(p), b)]]

policyEngineEvaluate(policy, operation) ==
  Decisions[policy][[operation EXCEPT !.id = NoId]]

\* an iteration that records a denial and dispatches the operation anyway
LoopBodyDispatchesDenied(policy, acc, operation, i, ok) ==
  LET policyResult == Decisions[policy][[operation EXCEPT !.id = NoId]]
      denied == [acc EXCEPT !.dispatched =
                   IF operation.type # "message" THEN Append(@, i) ELSE @,
                            !.events =
                   Append(@, Event("policyDenied", operation.id, operation.type,
                                   FALSE, policyResult.reason))]
  IN IF ~policyResult.allowed THEN denied
     ELSE IF policyResult.requiresApproval
     THEN [acc EXCEPT !.events =
                         Append(@, Event("approvalRequired", OrEmpty(operation.id),
                                         operation.type, FALSE, policyResult.reason)),
                      !.status = "awaiting_approval",
                      !.pendingApproval =
                         [isNull |-> FALSE, operationId |-> OrEmpty(operation.id),
                          operationType |-> operation.type,
                          reason |-> policyResult.reason,
                          policy |-> policyResult.policy],
                      !.returned = TRUE]
     ELSE [acc EXCEPT !.events =
                         Append(@, Event(operation.type, operation.id, "none",
                                         ok \/ operation.type = "message", "none")),
                      !.dispatched =
                         IF operation.type # "message" THEN Append(@, i) ELSE @]

\* one iteration of `for (const operation of operations)`
LoopBody(policy, acc, operation, i, ok) ==
  LET policyResult == policyEngineEvaluate(policy, operation)
  IN IF ~policyResult.allowed THEN AfterDeny(acc, operation, policyResult)
     ELSE IF policyResult.requiresApproval THEN AfterGate(acc, operation, policyResult)
     ELSE AfterAllow(acc, operation, i, ok)

RECURSIVE ExecLoop(_, _, _, _, _)
ExecLoop(policy, operations, outcomes, i, acc) ==
  IF acc.returned \/ i > Len(operations) THEN acc
  ELSE ExecLoop(policy, operations, outcomes, i + 1,
                LoopBody(policy, acc, operations[i], i, outcomes[i]))

\* executeRun({operations, sandbox, policyEngine}); outcomes[i] is the success
\* the sandbox returns if operations[i] is dispatched; `dispatched` lists the
\* positions (1-based, in `operations`) handed to a sandbox primitive.
executeRun(policy, operations, outcomes) ==
  LET acc0 == [events |-> <<>>, status |-> "completed",
               pendingApproval |-> NoPending, dispatched |-> <<>>,
               returned |-> FALSE]
      r == ExecLoop(policy, operations, outcomes, 1, acc0)
  IN [events |-> r.events, status |-> r.status,
      pendingApproval |-> r.pendingApproval, dispatched |-> r.dispatched]

(***************************************************************************)
(* The run service and the state it works on.                              *)
(***************************************************************************)
VARIABLES
  preset,      \* the preset the space's PolicyEngine was built from
  registered,  \* SpaceService holds the space's Sandbox and PolicyEngine
  runs,        \* the runs table: run id -> row
  sandboxLog,  \* per run id, the positions (in its operations vector) of the
               \* operations handed to a sandbox primitive, in call order
  approvals,   \* per run id, the accepted resume decisions, in order
  pendingAt,   \* per run id, the index (0-based) of the operation at which the
               \* executor last suspended the run, -1 if its last call completed
  last,        \* what the last service call did and returned
  calls,       \* the run service calls in flight, each at its await point
  dispatchLog, \* the calls of sandbox primitives, in the order they are made
  cancelledRuns, \* the runs a cancel was applied to while awaiting approval
  shellCase,   \* a shell policy, a command and the evaluation returned
  fsCase,      \* a policy, a file operation and the evaluation returned
  exec,        \* one shell operation on its way through the sandbox
  msgCase,     \* a policy, a message operation, the evaluation and the event
  timeoutCase, \* a shell policy, a requested timeout and the timeout returned
  pathCase,    \* a path string and the answers of the two path checks
  disk,        \* the host filesystem: location -> directory or file bytes
  fsLast,      \* the last sandbox filesystem primitive called, what it
               \* returned and the locations it read, wrote, listed or deleted
  space,       \* one space: registry entries, persisted status, sandbox
               \* object, container and the calls made on the container
  box          \* one Sandbox in the registry with its container, the exec
               \* call and the destroy call in flight on it

runVars == <<preset, registered, runs, sandboxLog, approvals, pendingAt, last>>
concVars == <<calls, dispatchLog, cancelledRuns>>
ruleVars == <<shellCase, fsCase>>
pureVars == <<msgCase, timeoutCase, pathCase>>
diskVars == <<disk, fsLast>>
restVars == <<pureVars, diskVars, space, box>>
others == <<concVars, ruleVars, exec, restVars>>

vars == <<runVars, concVars, ruleVars, exec, restVars>>

\* ids nanoid can give a run
RunIds == {"run_1"}

\* the approval.operationId values a caller may send (z.string())
ApprovalIds == {"", "a", "b"}

\* approval.reason: absent, empty or given
NoReason == "NoReason"
ApprovalReasons == {NoReason, "", "no"}

\* the resume requests; resume reads `reason` only when the decision is denied
Approvals ==
  [operationId : ApprovalIds, decision : {"denied"}, reason : ApprovalReasons]
  \cup [operationId : ApprovalIds, decision : {"approved"}, reason : {NoReason}]

NoCall == [call |-> "none", runId |-> "", outcome |-> "", decision |-> "",
           operationId |-> "", pendingIndex |-> -1, pendingBefore |-> -1,
           execFrom |-> 0,
           execOperations |-> <<>>,
           newEvents |-> <<>>, status |-> "", dispatched |-> <<>>]

\* no call in flight, nothing dispatched
ConcIdle == calls = << >> /\ dispatchLog = << >> /\ cancelledRuns = {}

\* no evaluation asked of the rules
RulesIdle == shellCase = << >> /\ fsCase = << >>

\* no input handed to evaluate (message), getShellTimeout or the path checks
PureIdle == msgCase = << >> /\ timeoutCase = << >> /\ pathCase = << >>

\* no filesystem primitive called
DiskIdle == disk = << >> /\ fsLast = << >>

\* no space looked at on its own
SpaceIdle == space = << >>

BoxIdle == box = << >>

RestIdle == PureIdle /\ DiskIdle /\ SpaceIdle /\ BoxIdle

\* `operation.timeout` absent
NoTimeout == 0

\* the ShellResult not yet returned
NoResult ==
  [success |-> FALSE, exitCode |-> -1, timedOut |-> FALSE, durationMs |-> -1,
   stderr |-> ""]

NoExec ==
  [pc |-> "idle", policyTimeout |-> 0, requested |-> NoTimeout,
   configTimeout |-> 0, duration |-> 0, timeout |-> 0, timedOut |-> FALSE,
   expired |-> FALSE, killed |-> FALSE, now |-> 0, result |-> NoResult]

\* no shell operation under way
ExecIdle == exec = NoExec

\* a space with no run yet
RunsIdle ==
  /\ registered = TRUE
  /\ runs = << >>
  /\ sandboxLog = << >>
  /\ approvals = << >>
  /\ pendingAt = << >>
  /\ last = NoCall

Init ==
  /\ preset \in PresetNames
  /\ RunsIdle
  /\ ConcIdle /\ RulesIdle /\ ExecIdle /\ RestIdle

\* a registry that has every space
SpaceAlwaysFound == TRUE

\* spaceService.getSandbox / getPolicyEngine return the space's objects
SpaceFound == registered

\* the index (0-based, in the run's operations) at which an executor call
\* that started at index `from` suspended; -1 if it did not suspend
SuspendedAt(from, result) ==
  IF result.status = "awaiting_approval"
  THEN from + Len(result.events) - 1 ELSE -1

\* the row the create persists from the executor's result
NewRun(operations, result) ==
  [status |-> result.status, operations |-> operations,
   events |-> result.events, pendingApproval |-> result.pendingApproval,
   completedAt |-> (result.status = "completed")]

\* RunService.create({spaceId, operations})
Create(operations, outcomes) ==
  /\ UNCHANGED <<preset, registered, others>>
  /\ IF ~SpaceFound
     THEN /\ last' = [NoCall EXCEPT !.call = "create",
                                    !.outcome = "Space not found or not initialized"]
          /\ UNCHANGED <<runs, sandboxLog, approvals, pendingAt>>
     ELSE LET id == CHOOSE i \in RunIds : i \notin DOMAIN runs
              result == executeRun(preset, operations, outcomes)
          IN /\ runs' = (id :> NewRun(operations, result)) @@ runs
             /\ sandboxLog' = (id :> result.dispatched) @@ sandboxLog
             /\ approvals' = (id :> << >>) @@ approvals
             /\ pendingAt' = (id :> SuspendedAt(0, result)) @@ pendingAt
             /\ last' = [NoCall EXCEPT !.call = "create", !.runId = id,
                                       !.outcome = "ok",
                                       !.execFrom = 1,
                                       !.execOperations = operations,
                                       !.newEvents = result.events,
                                       !.status = result.status,
                                       !.dispatched = result.dispatched]

\* operations.findIndex((op) => op.id === approval.operationId), 0-based
findIndex(operations, operationId) ==
  IF \E i \in 1..Len(operations) : operations[i].id = operationId
  THEN (CHOOSE i \in 1..Len(operations) :
          /\ operations[i].id = operationId
          /\ \A j \in 1..(i - 1) : operations[j].id # operationId) - 1
  ELSE -1

\* a resume that does not look at the status
StatusNotChecked(run) == FALSE

\* `run.status !== 'awaiting_approval'`
NotAwaitingApproval(run) == run.status # "awaiting_approval"

\* `approval.reason || 'Approval denied by user'`
DenialReason(approval) ==
  IF approval.reason = NoReason \/ approval.reason = ""
  THEN "Approval denied by user" ELSE approval.reason

\* the denied branch of resume: what it appends and persists
ResumeDenied(run, approval, pendingIndex, outcomes) ==
  [events |-> << Event("policyDenied", approval.operationId,
                       run.operations[pendingIndex + 1].type, FALSE,
                       DenialReason(approval)) >>,
   status |-> "completed", pendingApproval |-> NoPending,
   dispatched |-> << >>]

\* operations.slice(pendingIndex)
Slice(operations, from) == SubSeq(operations, from + 1, Len(operations))

\* the approved branch of resume: the executor's result on the remaining
\* operations, starting from the pending one
ResumeApproved(policy, run, approval, pendingIndex, outcomes) ==
  executeRun(policy, Slice(run.operations, pendingIndex),
             Slice(outcomes, pendingIndex))

Shift(positions, by) == [i \in 1..Len(positions) |-> positions[i] + by]

\* the row after resume's update: the new events are concatenated
UpdatedRun(run, result) ==
  [run EXCEPT !.status = result.status,
              !.events = run.events \o result.events,
              !.pendingApproval = result.pendingApproval,
              !.completedAt = IF result.status = "completed" THEN TRUE ELSE @]

Rejected(call, runId, approval, why) ==
  [NoCall EXCEPT !.call = call, !.runId = runId, !.outcome = why]

\* resume passes every check that rejects a call
ResumeAccepts(runId, approval) ==
  /\ runId \in DOMAIN runs
  /\ ~NotAwaitingApproval(runs[runId])
  /\ SpaceFound
  /\ findIndex(runs[runId].operations, approval.operationId) # -1

\* RunService.resume(runId, approval)
Resume(runId, approval, outcomes) ==
  /\ ResumeAccepts(runId, approval) => Len(approvals[runId]) < MaxResumes
  /\ UNCHANGED <<preset, registered, others>>
  /\ IF runId \notin DOMAIN runs
     THEN /\ last' = Rejected("resume", runId, approval, "Run not found")
          /\ UNCHANGED <<runs, sandboxLog, approvals, pendingAt>>
     ELSE IF NotAwaitingApproval(runs[runId])
     THEN /\ last' = Rejected("resume", runId, approval, "Run is not awaiting approval")
          /\ UNCHANGED <<runs, sandboxLog, approvals, pendingAt>>
     ELSE IF ~SpaceFound
     THEN /\ last' = Rejected("resume", runId, approval,
                              "Space not found or not initialized")
          /\ UNCHANGED <<runs, sandboxLog, approvals, pendingAt>>
     ELSE LET run == runs[runId]
              pendingIndex == findIndex(run.operations, approval.operationId)
          IN IF pendingIndex = -1
             THEN /\ last' = Rejected("resume", runId, approval,
                                      "Operation not found in run")
                  /\ UNCHANGED <<runs, sandboxLog, approvals, pendingAt>>
             ELSE LET result ==
                        IF approval.decision = "denied"
                        THEN ResumeDenied(run, approval, pendingIndex, outcomes)
                        ELSE ResumeApproved(preset, run, approval,
                                            pendingIndex, outcomes)
                      sent == Shift(result.dispatched, pendingIndex)
                  IN /\ runs' = [runs EXCEPT ![runId] = UpdatedRun(run, result)]
                     /\ pendingAt' =
                          [pendingAt EXCEPT ![runId] =
                             IF approval.decision = "approved"
                             THEN SuspendedAt(pendingIndex, result) ELSE -1]
                     /\ sandboxLog' = [sandboxLog EXCEPT ![runId] = @ \o sent]
                     /\ approvals' =
                          [approvals EXCEPT ![runId] =
                             Append(@, [decision |-> approval.decision,
                                        operationId |-> approval.operationId,
                                        pendingIndex |-> pendingIndex,
                                        advertised |-> run.pendingApproval.operationId,
                                        pendingBefore |-> pendingAt[runId]])]
                     /\ last' =
                          [NoCall EXCEPT
                             !.call = "resume", !.runId = runId, !.outcome = "ok",
                             !.decision = approval.decision,
                             !.operationId = approval.operationId,
                             !.pendingIndex = pendingIndex,
                             !.pendingBefore = pendingAt[runId],
                             !.execFrom = IF approval.decision = "approved"
                                          THEN pendingIndex + 1 ELSE 0,
                             !.execOperations =
                                IF approval.decision = "approved"
                                THEN Slice(run.operations, pendingIndex) ELSE <<>>,
                             !.newEvents = result.events,
                             !.status = result.status,
                             !.dispatched = sent]

\* RunService.cancel(runId)
Cancel(runId) ==
  /\ UNCHANGED <<preset, registered, sandboxLog, approvals, pendingAt, others>>
  /\ runs' = IF runId \in DOMAIN runs
             THEN [runs EXCEPT ![runId].status = "cancelled",
                               ![runId].completedAt = TRUE]
             ELSE runs
  /\ last' = [NoCall EXCEPT !.call = "cancel", !.runId = runId,
                            !.outcome = IF runId \in DOMAIN runs
                                        THEN "ok" ELSE "Run not found"]

\* SpaceService.destroy(spaceId): the space's sandbox and policy engine leave
\* the registry
Destroy ==
  /\ registered
  /\ registered' = FALSE
  /\ last' = [NoCall EXCEPT !.call = "destroy", !.outcome = "ok"]
  /\ UNCHANGED <<preset, runs, sandboxLog, approvals, pendingAt, others>>

\* the successes the sandbox may return for the operations of a batch
Outcomes(n) == [1..n -> BOOLEAN]

\* the route answers a request whose operations fail the protocol schema
\* with 400 VALIDATION_ERROR and does not call the run service; the answer
\* is the same for every such request
ValidationError ==
  /\ InvalidBatches # {}
  /\ last' = [NoCall EXCEPT !.call = "create", !.outcome = "VALIDATION_ERROR"]
  /\ UNCHANGED <<preset, registered, runs, sandboxLog, approvals, pendingAt, others>>

\* POST /spaces/:spaceId/runs; a create is made while nanoid has an unused
\* run id left
CreateStep ==
  \/ /\ \E id \in RunIds : id \notin DOMAIN runs
     /\ \E operations \in Batches :
          /\ operationsMessageSchema(operations)
          /\ \E outcomes \in Outcomes(Len(operations)) :
               Create(operations, outcomes)
  \/ ValidationError

\* the sandbox is called only by an accepted, approved resume
ResumeStep ==
  \E runId \in RunIds, approval \in Approvals :
    IF ResumeAccepts(runId, approval) /\ approval.decision = "approved"
    THEN \E outcomes \in Outcomes(Len(runs[runId].operations)) :
           Resume(runId, approval, outcomes)
    ELSE Resume(runId, approval, << >>)

CancelStep == \E runId \in RunIds : Cancel(runId)

Next == CreateStep \/ ResumeStep \/ CancelStep \/ Destroy

Spec == Init /\ [][Next]_vars

(***************************************************************************)
(* The run service under overlapping calls.  Every `await` of create and   *)
(* resume is a point where another request handler may run: the service    *)
(* holds no lock and opens no transaction.  A call is split at its awaits: *)
(* the read of the run row, each iteration of the executor's loop, the     *)
(* write of the row.  cancel is a single UPDATE statement.                 *)
(***************************************************************************)
CallIds == 1..MaxCalls

\* ids nanoid gives the runs of overlapping creates
ConcRunIds == {"run_1", "run_2"}

\* `const events: Event[] = []` at the head of executeRun
StartOfLoop ==
  [events |-> <<>>, status |-> "completed", pendingApproval |-> NoPending,
   dispatched |-> <<>>, returned |-> FALSE]

IdleCall ==
  [kind |-> "none", pc |-> "idle", runId |-> "", operations |-> <<>>,
   from |-> 0, i |-> 1, acc |-> StartOfLoop, priorEvents |-> <<>>,
   accepted |-> FALSE, afterCancel |-> FALSE, overlaps |-> {}]

\* the batches overlapping creates submit: the operations carry distinct ids
ConcBatches ==
  { q \in Batches : \A i \in 1..Len(q) : q[i].id = (IF i = 1 THEN "a" ELSE "b") }

\* the decisions overlapping resumes send
ConcApprovals ==
  { a \in Approvals : a.reason = NoReason /\ a.operationId # "" }

InitConc ==
  /\ preset \in PresetNames
  /\ RunsIdle
  /\ calls = [c \in CallIds |-> IdleCall]
  /\ dispatchLog = << >>
  /\ cancelledRuns = {}
  /\ RulesIdle /\ ExecIdle /\ RestIdle

\* the next call to arrive takes the next free slot
Arrives(c) ==
  /\ calls[c].pc = "idle"
  /\ c > 1 => calls[c - 1].pc # "idle"

\* RunService.create up to the call of executeRun
createBegin(c, operations) ==
  /\ Arrives(c)
  /\ SpaceFound
  /\ \E id \in ConcRunIds :
       id \notin DOMAIN runs /\ \A d \in CallIds : calls[d].runId # id
  /\ LET id == CHOOSE id \in ConcRunIds :
                 id \notin DOMAIN runs /\ \A d \in CallIds : calls[d].runId # id
     IN calls' = [calls EXCEPT ![c] =
                    [IdleCall EXCEPT !.kind = "create",
                                     !.pc = IF operations = <<>> THEN "write" ELSE "exec",
                                     !.runId = id,
                                     !.operations = operations,
                                     !.accepted = TRUE]]
  /\ UNCHANGED <<runVars, dispatchLog, cancelledRuns, ruleVars, exec, restVars>>

\* the operation the executor of call c evaluates next is handed to a
\* sandbox primitive
WillDispatch(c) ==
  LET operation == calls[c].operations[calls[c].i]
      policyResult == policyEngineEvaluate(preset, operation)
  IN policyResult.allowed /\ ~policyResult.requiresApproval /\ CallsSandbox(operation)

\* one iteration of executeRun's loop for call c; `ok` is what the sandbox
\* answers if the operation is dispatched
executeRunStep(c, ok) ==
  /\ calls[c].pc = "exec"
  /\ ok = FALSE => WillDispatch(c)
  /\ LET call == calls[c]
         position == call.from + call.i
         acc == LoopBody(preset, call.acc, call.operations[call.i], position, ok)
     IN /\ calls' = [calls EXCEPT ![c].acc = acc,
                                   ![c].i = call.i + 1,
                                   ![c].pc = IF acc.returned \/ call.i = Len(call.operations)
                                             THEN "write" ELSE "exec"]
        /\ dispatchLog' =
             IF WillDispatch(c)
             THEN Append(dispatchLog, [call |-> c, runId |-> call.runId,
                                       position |-> position])
             ELSE dispatchLog
  /\ UNCHANGED <<runVars, cancelledRuns, ruleVars, exec, restVars>>

\* RunService.create after executeRun: the INSERT of the run row
createInsert(c) ==
  /\ calls[c].kind = "create"
  /\ calls[c].pc = "write"
  /\ runs' = (calls[c].runId :> NewRun(calls[c].operations, calls[c].acc)) @@ runs
  /\ calls' = [calls EXCEPT ![c].pc = "done"]
  /\ UNCHANGED <<preset, registered, sandboxLog, approvals, pendingAt, last,
                 dispatchLog, cancelledRuns, ruleVars, exec, restVars>>

\* RunService.resume from `await this.get(runId)` to its next await: the
\* checks on the row it read and the choice of the branch
resumeRead(c, runId, approval) ==
  /\ Arrives(c)
  /\ LET seen == [IdleCall EXCEPT
                    !.kind = "resume", !.pc = "done", !.runId = runId,
                    !.afterCancel = (runId \in cancelledRuns),
                    !.overlaps = { d \in CallIds :
                                     /\ calls[d].kind = "resume"
                                     /\ calls[d].runId = runId
                                     /\ calls[d].accepted
                                     /\ calls[d].pc \in {"exec", "write"} }]
     IN IF ~ResumeAccepts(runId, approval)
        THEN calls' = [calls EXCEPT ![c] = seen]
        ELSE LET run == runs[runId]
                 pendingIndex == findIndex(run.operations, approval.operationId)
                 denied == ResumeDenied(run, approval, pendingIndex, << >>)
             IN calls' =
                  [calls EXCEPT ![c] =
                     IF approval.decision = "denied"
                     THEN [seen EXCEPT !.pc = "write", !.accepted = TRUE,
                                       !.from = pendingIndex,
                                       !.priorEvents = run.events,
                                       !.acc = [StartOfLoop EXCEPT
                                                  !.events = denied.events,
                                                  !.status = denied.status]]
                     ELSE [seen EXCEPT !.pc = "exec", !.accepted = TRUE,
                                       !.from = pendingIndex,
                                       !.priorEvents = run.events,
                                       !.operations =
                                          Slice(run.operations, pendingIndex)]]
  /\ UNCHANGED <<runVars, dispatchLog, cancelledRuns, ruleVars, exec, restVars>>

\* RunService.resume: the UPDATE of the run row, with the events read
\* before the await
resumeUpdate(c) ==
  /\ calls[c].kind = "resume"
  /\ calls[c].pc = "write"
  /\ runs' = [runs EXCEPT ![calls[c].runId] =
                UpdatedRun([@ EXCEPT !.events = calls[c].priorEvents], calls[c].acc)]
  /\ calls' = [calls EXCEPT ![c].pc = "done"]
  /\ UNCHANGED <<preset, registered, sandboxLog, approvals, pendingAt, last,
                 dispatchLog, cancelledRuns, ruleVars, exec, restVars>>

\* RunService.cancel: one UPDATE, whatever the status
cancelUpdate(runId) ==
  /\ runId \in DOMAIN runs
  /\ runs[runId].status # "cancelled"
  /\ runs' = [runs EXCEPT ![runId].status = "cancelled",
                          ![runId].completedAt = TRUE]
  /\ cancelledRuns' = IF runs[runId].status = "awaiting_approval"
                      THEN cancelledRuns \cup {runId} ELSE cancelledRuns
  /\ UNCHANGED <<preset, registered, sandboxLog, approvals, pendingAt, last,
                 calls, dispatchLog, ruleVars, exec, restVars>>

CreateArrives ==
  \E c \in CallIds, operations \in ConcBatches : createBegin(c, operations)

ExecutorRuns == \E c \in CallIds, ok \in BOOLEAN : executeRunStep(c, ok)

CreateWrites == \E c \in CallIds : createInsert(c)

ResumeArrives ==
  \E c \in CallIds, runId \in ConcRunIds, approval \in ConcApprovals :
    resumeRead(c, runId, approval)

ResumeWrites == \E c \in CallIds : resumeUpdate(c)

CancelArrives == \E runId \in ConcRunIds : cancelUpdate(runId)

NextConc ==
  \/ CreateArrives
  \/ ExecutorRuns
  \/ CreateWrites
  \/ ResumeArrives
  \/ ResumeWrites
  \/ CancelArrives

SpecConc == InitConc /\ [][NextConc]_vars

(***************************************************************************)
(* One shell operation from executeOperation through Sandbox.exec and      *)
(* execInContainer to the ShellResult.  Times are milliseconds since the   *)
(* exec was started; the clock jumps to the next event: the expiry of the  *)
(* timer or the end of the command.                                        *)
(***************************************************************************)
\* DEFAULT_CONFIG.timeout when SANDBOX_TIMEOUT is not set
DEFAULT_SANDBOX_TIMEOUT == 30000

\* the fallback of execInContainer
DEFAULT_EXEC_TIMEOUT == 30000

\* exit code docker reports for a process ended by SIGKILL
SIGKILL_EXIT == 137

\* policy.shell.timeout of the space: a preset's, or an override
PolicyTimeouts ==
  { getPreset(p).shell.timeout : p \in {"standard", "permissive"} } \cup {2000}

\* operation.timeout: absent, or an integer the schema accepts
RequestedTimeouts == {NoTimeout, MIN_TIMEOUT, 60000, MAX_TIMEOUT}

\* config.timeout of the sandbox: SpaceService.create passes none, so it is
\* Number(process.env.SANDBOX_TIMEOUT) || 30000
ConfigTimeouts == {5000, DEFAULT_SANDBOX_TIMEOUT}

\* how long the command runs if nothing stops it
Durations == {500, 10000, 4000000}

\* `a || b` on numbers
OrElse(a, b) == IF a = 0 THEN b ELSE a

\* Sandbox.exec: the timeout it hands to execInContainer
sandboxExecTimeout(optionsTimeout, configTimeout) ==
  OrElse(optionsTimeout, configTimeout)

\* execInContainer: `options.timeout || 30000`
execInContainerTimeout(optionsTimeout) == OrElse(optionsTimeout, DEFAULT_EXEC_TIMEOUT)

\* an optional number: `undefined`, or a number
Undefined == [undefined |-> TRUE, value |-> 0]
Num(n) == [undefined |-> FALSE, value |-> n]

\* the truthiness of an optional number: undefined and 0 are falsy
Truthy(x) == ~x.undefined /\ x.value # 0

\* getShellTimeout(policy, requestedTimeout) of the shell rules
getShellTimeout(policy, requestedTimeout) ==
  IF Truthy(requestedTimeout) /\ requestedTimeout.value < policy.timeout
  THEN requestedTimeout.value ELSE policy.timeout

InitExec ==
  /\ preset = "standard"
  /\ RunsIdle /\ ConcIdle /\ RulesIdle /\ RestIdle
  /\ \E pt \in PolicyTimeouts, rt \in RequestedTimeouts,
        ct \in ConfigTimeouts, d \in Durations :
       exec = [NoExec EXCEPT !.pc = "dispatched", !.policyTimeout = pt,
                             !.requested = rt, !.configTimeout = ct,
                             !.duration = d]

\* executeOperation (shell) calls sandbox.exec with operation.timeout;
\* Sandbox.exec calls execInContainer, which arms the timer
sandboxExec ==
  /\ exec.pc = "dispatched"
  /\ exec' = [exec EXCEPT
                !.pc = "created",
                !.timeout = execInContainerTimeout(
                              sandboxExecTimeout(exec.requested, exec.configTimeout))]
  /\ UNCHANGED <<runVars, concVars, ruleVars, restVars>>

\* the ShellResult of the `end` handler
EndResult(timedOut, exitCode, durationMs) ==
  [success |-> (~timedOut /\ exitCode = 0), exitCode |-> exitCode,
   timedOut |-> timedOut, durationMs |-> durationMs, stderr |-> ""]

\* the callback of exec.start: the stream, or an error
execStart(err) ==
  /\ exec.pc = "created"
  /\ exec' = IF err
             THEN [exec EXCEPT !.pc = "resolved",
                               !.result = [NoResult EXCEPT
                                             !.exitCode = 1, !.durationMs = 0,
                                             !.stderr = "Failed to start exec"]]
             ELSE [exec EXCEPT !.pc = "running"]
  /\ UNCHANGED <<runVars, concVars, ruleVars, restVars>>

\* the timer's callback: the command is still running after `timeout` ms;
\* `running` is what exec.inspect() answers, the container is killed if so
timerExpires(running) ==
  /\ exec.pc = "running"
  /\ ~exec.timedOut
  /\ exec.timeout <= exec.duration
  /\ running = FALSE => exec.timeout = exec.duration
  /\ exec' = [exec EXCEPT !.timedOut = TRUE, !.expired = TRUE,
                          !.killed = running, !.now = exec.timeout]
  /\ UNCHANGED <<runVars, concVars, ruleVars, restVars>>

\* the exit codes exec.inspect() may report in the `end` handler: -1 stands
\* for a call that throws
InspectOutcomes ==
  IF exec.killed THEN {SIGKILL_EXIT, -1} ELSE {0, 1, -1}

\* the stream's `end`: the command ended by itself, or was killed
streamEnd(inspected) ==
  /\ exec.pc = "running"
  /\ exec.timedOut \/ exec.duration <= exec.timeout
  /\ inspected \in InspectOutcomes
  /\ LET now == IF exec.timedOut THEN exec.now ELSE exec.duration
         exitCode == IF inspected = -1
                     THEN (IF exec.timedOut THEN 124 ELSE 1)
                     ELSE inspected
     IN exec' = [exec EXCEPT !.pc = "resolved", !.now = now,
                             !.result = EndResult(exec.timedOut, exitCode, now)]
  /\ UNCHANGED <<runVars, concVars, ruleVars, restVars>>

\* the stream's `error`
streamError ==
  /\ exec.pc = "running"
  /\ exec' = [exec EXCEPT !.pc = "resolved",
                          !.result = [NoResult EXCEPT
                                        !.exitCode = 1, !.durationMs = exec.now,
                                        !.stderr = "stream error"]]
  /\ UNCHANGED <<runVars, concVars, ruleVars, restVars>>

ExecStarts == \E err \in BOOLEAN : execStart(err)

TimerExpires == \E running \in BOOLEAN : timerExpires(running)

StreamEnds == \E inspected \in {0, 1, SIGKILL_EXIT, -1} : streamEnd(inspected)

NextExec ==
  \/ sandboxExec
  \/ ExecStarts
  \/ TimerExpires
  \/ StreamEnds
  \/ streamError

SpecExec == InitExec /\ [][NextExec]_vars

(***************************************************************************)
(* The shell rules on their own: evaluateShellPolicy applied to every      *)
(* policy and every command of a bounded family.                           *)
(***************************************************************************)
\* the characters of the commands: three letters, a space, a tab
CommandChars == {"b", "r", "s", " ", "\t"}

Commands == SeqsUpTo(CommandChars, MaxCommandLen)

\* the lists a ShellPolicy may hold; an absent list is the empty list
AllowedCommandLists ==
  { << >>, << <<"b">> >>, << <<"b">>, <<"r", "s">> >> }

BlockedPatternLists ==
  { << >>, << <<"s">> >>, << <<"r", " ", "s">>, <<"s", "s">> >> }

ApprovalRequiredLists ==
  { << >>, << <<"r">> >>, << <<"b", " ">>, <<"r", "r">> >> }

ShellPolicies ==
  [enabled : BOOLEAN, timeout : {30000},
   allowedCommands : AllowedCommandLists,
   blockedPatterns : BlockedPatternLists,
   approvalRequired : ApprovalRequiredLists]

InitShell ==
  /\ preset = "standard"
  /\ RunsIdle /\ ConcIdle /\ ExecIdle /\ RestIdle
  /\ fsCase = << >>
  /\ \E policy \in ShellPolicies, command \in Commands :
       shellCase = [policy |-> policy, command |-> command, done |-> FALSE,
                    result |-> PolicyAllow]

\* PolicyEngine.evaluateShell(command)
evaluateShell ==
  /\ ~shellCase.done
  /\ shellCase' = [shellCase EXCEPT
                     !.done = TRUE,
                     !.result = evaluateShellPolicy(shellCase.policy,
                                                    shellCase.command)]
  /\ UNCHANGED <<runVars, concVars, fsCase, exec, restVars>>

NextShell == evaluateShell

SpecShell == InitShell /\ [][NextShell]_vars

(***************************************************************************)
(* The filesystem rules on their own: PolicyEngine.evaluate applied to     *)
(* every file operation and every filesystem policy of a bounded family.   *)
(***************************************************************************)
PathChars == {"s", "k", ".", "/"}

Paths == SeqsUpTo(PathChars, MaxPathLen)

BlockedPathLists ==
  { << >>, << <<".", "*">> >>, << <<"*", ".", "k">>, <<"s", "*">> >> }

AllowedPathLists ==
  { << >>, << <<"s", "/", "*">> >>, << <<"*", "k">>, <<".", "*">> >> }

\* maxFileSize, in characters of content
FileSizes == {1, 2}

FilesystemPolicies ==
  [enabled : BOOLEAN, readOnly : BOOLEAN, maxFileSize : FileSizes,
   blockedPaths : BlockedPathLists, allowedPaths : AllowedPathLists]

\* the contents of a createFile: 0 to 3 characters
Contents == { << >>, <<"x">>, <<"x", "x">>, <<"x", "x", "x">> }

FileOperations ==
  { Op(NoId, "createFile", path, << >>, content) :
      path \in Paths, content \in Contents }
  \cup { Op(NoId, type, path, << >>, << >>) :
           type \in {"readFile", "editFile", "deleteFile"}, path \in Paths }

InitFs ==
  /\ preset = "standard"
  /\ RunsIdle /\ ConcIdle /\ ExecIdle /\ RestIdle
  /\ shellCase = << >>
  /\ \E filesystem \in FilesystemPolicies, operation \in FileOperations :
       fsCase = [policy |-> [standardPolicy EXCEPT !.filesystem = filesystem],
                 operation |-> operation, done |-> FALSE, result |-> PolicyAllow]

\* policyEngine.evaluate(operation) for a file operation
evaluateFile ==
  /\ ~fsCase.done
  /\ fsCase' = [fsCase EXCEPT
                  !.done = TRUE,
                  !.result = evaluate(fsCase.policy, fsCase.operation)]
  /\ UNCHANGED <<runVars, concVars, shellCase, exec, restVars>>

NextFs == evaluateFile

SpecFs == InitFs /\ [][NextFs]_vars

(***************************************************************************)
(* Message operations on their own: one iteration of the executor's loop   *)
(* for a message under the engine of every preset, with and without        *)
(* overrides.                                                              *)
(***************************************************************************)
\* `{...base, ...overrides}`: the fields the overrides hold replace the base's
Spread(base, overrides) == overrides @@ base

\* PolicyEngine.fromPresetWithOverrides(preset, overrides)
fromPresetWithOverrides(name, overrides) ==
  LET basePolicy == getPreset(name)
  IN [name |-> basePolicy.name,
      filesystem |-> Spread(basePolicy.filesystem, overrides.filesystem),
      shell |-> Spread(basePolicy.shell, overrides.shell)]

\* Partial<FilesystemPolicy>: no field, or some fields
FilesystemOverrides ==
  { << >>, [enabled |-> FALSE], [readOnly |-> TRUE],
    [enabled |-> FALSE, maxFileSize |-> 0] }

\* Partial<ShellPolicy>; the patterns occur in the texts of the messages
ShellOverrides ==
  { << >>, [enabled |-> FALSE], [allowedCommands |-> << <<"l", "s">> >>],
    [blockedPatterns |-> << <<"h">> >>],
    [approvalRequired |-> << <<"h", "i">>, <<"r", "m">> >>] }

PolicyOverrides == [filesystem : FilesystemOverrides, shell : ShellOverrides]

MessageTexts == { << >>, <<"h", "i">>, <<"r", "m", " ", "-", "r", "f">> }

Messages ==
  { Op(id, "message", << >>, << >>, content) :
      id \in OpIds, content \in MessageTexts }

\* the accumulator of the loop before its first iteration
StartOfBatch ==
  [events |-> << >>, status |-> "completed", pendingApproval |-> NoPending,
   dispatched |-> << >>, returned |-> FALSE]

InitMsg ==
  /\ preset = "standard"
  /\ RunsIdle /\ ConcIdle /\ RulesIdle /\ ExecIdle /\ DiskIdle /\ SpaceIdle /\ BoxIdle
  /\ timeoutCase = << >> /\ pathCase = << >>
  /\ \E name \in PresetNames, overrides \in PolicyOverrides,
        operation \in Messages :
       msgCase = [preset |-> name, overrides |-> overrides,
                  policy |-> fromPresetWithOverrides(name, overrides),
                  operation |-> operation, done |-> FALSE,
                  result |-> PolicyAllow, acc |-> StartOfBatch]

\* the iteration of executeRun's loop at a message operation
executeMessage ==
  /\ ~msgCase.done
  /\ LET operation == msgCase.operation
         policyResult == evaluate(msgCase.policy, operation)
         acc == IF ~policyResult.allowed
                THEN AfterDeny(StartOfBatch, operation, policyResult)
                ELSE IF policyResult.requiresApproval
                THEN AfterGate(StartOfBatch, operation, policyResult)
                ELSE AfterAllow(StartOfBatch, operation, 1, TRUE)
     IN msgCase' = [msgCase EXCEPT !.done = TRUE, !.result = policyResult,
                                   !.acc = acc]
  /\ UNCHANGED <<runVars, concVars, ruleVars, exec, timeoutCase, pathCase,
                 diskVars, space, box>>

NextMsg == executeMessage

SpecMsg == InitMsg /\ [][NextMsg]_vars

(***************************************************************************)
(* getShellTimeout on its own: every shell policy of a bounded family and  *)
(* every requested timeout of a bounded family.                            *)
(***************************************************************************)
\* Partial<ShellPolicy> that set the timeout, or nothing
TimeoutOverrides ==
  { << >>, [timeout |-> 2000], [timeout |-> MAX_TIMEOUT], [enabled |-> FALSE] }

\* requestedTimeout?: number
RequestedShellTimeouts ==
  { Undefined }
  \cup { Num(n) : n \in {0, 1, MIN_TIMEOUT, 2000, 10000, 30000, 60000, 300000,
                         MAX_TIMEOUT, MAX_TIMEOUT + 1} }

InitTimeout ==
  /\ preset = "standard"
  /\ RunsIdle /\ ConcIdle /\ RulesIdle /\ ExecIdle /\ DiskIdle /\ SpaceIdle /\ BoxIdle
  /\ msgCase = << >> /\ pathCase = << >>
  /\ \E name \in PresetNames, overrides \in TimeoutOverrides,
        requestedTimeout \in RequestedShellTimeouts :
       timeoutCase =
         [policy |-> fromPresetWithOverrides(
                       name, [filesystem |-> << >>, shell |-> overrides]),
          requestedTimeout |-> requestedTimeout, done |-> FALSE, result |-> 0]

\* PolicyEngine.getShellTimeout(requestedTimeout)
engineGetShellTimeout ==
  /\ ~timeoutCase.done
  /\ timeoutCase' =
       [timeoutCase EXCEPT
          !.done = TRUE,
          !.result = getShellTimeout(timeoutCase.policy.shell,
                                     timeoutCase.requestedTimeout)]
  /\ UNCHANGED <<runVars, concVars, ruleVars, exec, msgCase, pathCase,
                 diskVars, space, box>>

NextTimeout == engineGetShellTimeout

SpecTimeout == InitTimeout /\ [][NextTimeout]_vars

(***************************************************************************)
(* The two path checks on their own: pathSchema (operation validation) and *)
(* validatePath applied to every string of a bounded family.               *)
(***************************************************************************)
\* a string of n characters "s"
Filled(n) == [i \in 1..n |-> "s"]

\* every string of up to MaxPathLen characters (null byte included), and two
\* strings at the length limit
PathStrings ==
  SeqsUpTo(PathChars \cup {NUL}, MaxPathLen)
  \cup { Filled(MAX_PATH_LENGTH), Filled(MAX_PATH_LENGTH + 1) }

InitPath ==
  /\ preset = "standard"
  /\ RunsIdle /\ ConcIdle /\ RulesIdle /\ ExecIdle /\ DiskIdle /\ SpaceIdle /\ BoxIdle
  /\ msgCase = << >> /\ timeoutCase = << >>
  /\ \E path \in PathStrings :
       pathCase = [path |-> path, done |-> FALSE, schema |-> FALSE,
                   valid |-> FALSE]

\* validateOperation on a readFile of the path, and isValidPath(path)
checkPath ==
  /\ ~pathCase.done
  /\ pathCase' =
       [pathCase EXCEPT
          !.done = TRUE,
          !.schema = operationSchema(Op(NoId, "readFile", pathCase.path,
                                        << >>, << >>)),
          !.valid = isValidPath(pathCase.path)]
  /\ UNCHANGED <<runVars, concVars, ruleVars, exec, msgCase, timeoutCase,
                 diskVars, space, box>>

NextPath == checkPath

SpecPath == InitPath /\ [][NextPath]_vars

(***************************************************************************)
(* The sandbox's filesystem primitives on the host filesystem.  A path is  *)
(* a string (a sequence of characters); the host filesystem maps the       *)
(* normalized absolute path of every directory and file to its entry.      *)
(***************************************************************************)
\* s.split('/')
RECURSIVE SplitSlash(_)
SplitSlash(s) ==
  IF \A i \in 1..Len(s) : s[i] # "/" THEN << s >>
  ELSE LET cut == CHOOSE i \in 1..Len(s) :
                    s[i] = "/" /\ \A j \in 1..(i - 1) : s[j] # "/"
       IN << SubSeq(s, 1, cut - 1) >> \o SplitSlash(SubSeq(s, cut + 1, Len(s)))

\* segments.join('/')
RECURSIVE JoinSlash(_)
JoinSlash(segments) ==
  IF segments = << >> THEN << >>
  ELSE IF Len(segments) = 1 THEN segments[1]
  ELSE segments[1] \o <<"/">> \o JoinSlash(Tail(segments))

\* the segments of an absolute path after "." and "" are dropped and each
\* ".." has removed the segment before it (at the root it removes nothing)
RECURSIVE Resolve(_, _)
Resolve(segments, kept) ==
  IF segments = << >> THEN kept
  ELSE LET head == Head(segments)
       IN IF head = << >> \/ head = <<".">> THEN Resolve(Tail(segments), kept)
          ELSE IF head = <<".", ".">>
          THEN Resolve(Tail(segments),
                       IF kept = << >> THEN kept
                       ELSE SubSeq(kept, 1, Len(kept) - 1))
          ELSE Resolve(Tail(segments), Append(kept, head))

\* path.normalize of an absolute path: a trailing separator is kept
normalize(path) ==
  LET kept == Resolve(SplitSlash(path), << >>)
      trailing == path[Len(path)] = "/"
  IN <<"/">> \o JoinSlash(kept)
     \o (IF kept # << >> /\ trailing THEN <<"/">> ELSE << >>)

\* path.join(workspacePath, relativePath): empty arguments are left out
join(workspacePath, relativePath) ==
  IF relativePath = << >> THEN normalize(workspacePath)
  ELSE normalize(workspacePath \o <<"/">> \o relativePath)

getFullPath(workspacePath, relativePath) == join(workspacePath, relativePath)

\* resolvedTarget.startsWith(resolvedWorkspace)
isPathInWorkspace(workspacePath, targetPath) ==
  LET resolvedWorkspace == join(workspacePath, << >>)
      resolvedTarget == join(workspacePath, targetPath)
  IN StartsWith(resolvedTarget, resolvedWorkspace)

\* a string without its trailing separators (the root keeps its own)
RECURSIVE StripSlashes(_)
StripSlashes(path) ==
  IF Len(path) > 1 /\ path[Len(path)] = "/"
  THEN StripSlashes(SubSeq(path, 1, Len(path) - 1)) ELSE path

\* the index of the last "/" of a string, 0 if it has none
LastSlash(path) ==
  IF \A i \in 1..Len(path) : path[i] # "/" THEN 0
  ELSE CHOOSE i \in 1..Len(path) :
         path[i] = "/" /\ \A j \in (i + 1)..Len(path) : path[j] # "/"

\* path.dirname
dirname(path) ==
  LET bare == StripSlashes(path)
      cut == LastSlash(bare)
  IN IF path = << >> THEN <<".">>
     ELSE IF cut = 0 THEN <<".">>
     ELSE IF StripSlashes(SubSeq(bare, 1, cut)) = <<"/">> THEN <<"/">>
     ELSE StripSlashes(SubSeq(bare, 1, cut - 1))

\* the entries of the host filesystem
Directory == [dir |-> TRUE, bytes |-> << >>]
RegularFile(bytes) == [dir |-> FALSE, bytes |-> bytes]

\* the entry a path names; a path that ends in a separator names a directory
Location(fullPath) == StripSlashes(fullPath)
NamesDirectory(fullPath) == Len(fullPath) > 1 /\ fullPath[Len(fullPath)] = "/"

\* existsSync(fullPath)
existsSync(d, fullPath) ==
  /\ Location(fullPath) \in DOMAIN d
  /\ NamesDirectory(fullPath) => d[Location(fullPath)].dir

\* the directories above a location, up to the root
RECURSIVE AncestorsOf(_)
AncestorsOf(location) ==
  IF location = <<"/">> THEN {}
  ELSE {dirname(location)} \cup AncestorsOf(dirname(location))

Without(d, location) == [l \in DOMAIN d \ {location} |-> d[l]]

\* what a call of node:fs gives: it threw or not, the filesystem after it,
\* the bytes it returned
FsThrows(d) == [threw |-> TRUE, disk |-> d, bytes |-> << >>, made |-> {}]
FsDone(d, bytes, made) == [threw |-> FALSE, disk |-> d, bytes |-> bytes, made |-> made]

\* mkdir(fullPath, {recursive: true}): throws if a file is in the way
mkdir(d, fullPath) ==
  LET chain == AncestorsOf(Location(fullPath)) \cup {Location(fullPath)}
      missing == chain \ DOMAIN d
  IN IF \E l \in chain : l \in DOMAIN d /\ ~d[l].dir THEN FsThrows(d)
     ELSE FsDone([l \in missing |-> Directory] @@ d, << >>, missing)

\* writeFile(fullPath, buffer): throws on a directory and under a missing
\* directory
writeFile(d, fullPath, bytes) ==
  LET location == Location(fullPath)
      parent == dirname(location)
  IN IF \/ NamesDirectory(fullPath)
        \/ location \in DOMAIN d /\ d[location].dir
        \/ parent \notin DOMAIN d
        \/ ~d[parent].dir
     THEN FsThrows(d)
     ELSE FsDone((location :> RegularFile(bytes)) @@ d, << >>, {location})

\* readFile(fullPath): throws on a directory and on a missing file
readFile(d, fullPath) ==
  IF existsSync(d, fullPath) /\ ~d[Location(fullPath)].dir
  THEN FsDone(d, d[Location(fullPath)].bytes, {})
  ELSE FsThrows(d)

\* unlink(fullPath): throws on a directory and on a missing file
unlink(d, fullPath) ==
  IF existsSync(d, fullPath) /\ ~d[Location(fullPath)].dir
  THEN FsDone(Without(d, Location(fullPath)), << >>, {Location(fullPath)})
  ELSE FsThrows(d)

\* the entries readdir(fullPath) returns
Children(d, location) ==
  { l \in DOMAIN d : l # <<"/">> /\ dirname(l) = location }

\* everything below a directory
Descendants(d, location) ==
  { l \in DOMAIN d : l # location /\ location \in AncestorsOf(l) }

\* s.indexOf(p), 1-based; 0 if p does not occur
IndexOf(s, p) ==
  IF Includes(s, p)
  THEN CHOOSE i \in 1..(Len(s) + 1) :
         /\ SubSeq(s, i, i + Len(p) - 1) = p
         /\ \A j \in 1..(i - 1) : SubSeq(s, j, j + Len(p) - 1) # p
  ELSE 0

\* the text String.prototype.replace puts in place of the match: in the
\* replacement "$$" stands for "$" and "$&" for the matched text
RECURSIVE GetSubstitution(_, _)
GetSubstitution(matched, replacement) ==
  IF replacement = << >> THEN << >>
  ELSE IF Len(replacement) >= 2 /\ replacement[1] = "$" /\ replacement[2] = "$"
  THEN <<"$">> \o GetSubstitution(matched, SubSeq(replacement, 3, Len(replacement)))
  ELSE IF Len(replacement) >= 2 /\ replacement[1] = "$" /\ replacement[2] = "&"
  THEN matched \o GetSubstitution(matched, SubSeq(replacement, 3, Len(replacement)))
  ELSE << Head(replacement) >> \o GetSubstitution(matched, Tail(replacement))

\* content.replace(oldContent, newContent) with a string pattern: the first
\* occurrence only
replace(content, oldContent, newContent) ==
  LET at == IndexOf(content, oldContent)
  IN IF at = 0 THEN content
     ELSE SubSeq(content, 1, at - 1)
          \o GetSubstitution(oldContent, newContent)
          \o SubSeq(content, at + Len(oldContent), Len(content))

\* the loop of editFile over the edits: the buffer, the count, and whether an
\* edit's oldContent was missing
RECURSIVE applyEdits(_, _, _)
applyEdits(content, edits, editsApplied) ==
  IF edits = << >>
  THEN [found |-> TRUE, content |-> content, editsApplied |-> editsApplied]
  ELSE IF ~Includes(content, Head(edits).oldContent)
  THEN [found |-> FALSE, content |-> content, editsApplied |-> editsApplied]
  ELSE applyEdits(replace(content, Head(edits).oldContent, Head(edits).newContent),
                  Tail(edits), editsApplied + 1)

\* FileResult, and what the primitive did to the host filesystem: the
\* locations whose entry it returned and those it made, wrote or removed
FileResult(success, error, bytes, editsApplied, d, read, written) ==
  [success |-> success, error |-> error, threw |-> FALSE, bytes |-> bytes,
   size |-> Len(bytes), editsApplied |-> editsApplied, files |-> {},
   disk |-> d, read |-> read, written |-> written]

Refused(error, d) == FileResult(FALSE, error, << >>, 0, d, {}, {})

\* the message of an error node:fs throws
SystemError == "system error"

\* a createFile that writes whether or not the file exists
createFileAlwaysOverwrites(d, workspacePath, relativePath, content, overwrite) ==
  IF ~isPathInWorkspace(workspacePath, relativePath)
  THEN Refused("Path is outside workspace", d)
  ELSE LET fullPath == getFullPath(workspacePath, relativePath)
           made == mkdir(d, join(workspacePath, dirname(relativePath)))
           wrote == writeFile(made.disk, fullPath, content)
       IN IF made.threw THEN Refused(SystemError, d)
          ELSE IF wrote.threw
          THEN FileResult(FALSE, SystemError, << >>, 0, made.disk, {}, made.made)
          ELSE FileResult(TRUE, "none", content, 0, wrote.disk,
                          {}, made.made \cup wrote.made)

\* createFile(workspacePath, relativePath, content, {overwrite})
createFile(d, workspacePath, relativePath, content, overwrite) ==
  IF ~isPathInWorkspace(workspacePath, relativePath)
  THEN Refused("Path is outside workspace", d)
  ELSE LET fullPath == getFullPath(workspacePath, relativePath)
       IN IF ~overwrite /\ existsSync(d, fullPath)
          THEN Refused("File already exists", d)
          ELSE LET made == mkdir(d, join(workspacePath, dirname(relativePath)))
                   wrote == writeFile(made.disk, fullPath, content)
               IN IF made.threw THEN Refused(SystemError, d)
                  ELSE IF wrote.threw
                  THEN FileResult(FALSE, SystemError, << >>, 0, made.disk,
                                  {}, made.made)
                  ELSE FileResult(TRUE, "none", content, 0, wrote.disk,
                                  {}, made.made \cup wrote.made)

\* readFileContent(workspacePath, relativePath)
readFileContent(d, workspacePath, relativePath) ==
  IF ~isPathInWorkspace(workspacePath, relativePath)
  THEN Refused("Path is outside workspace", d)
  ELSE LET fullPath == getFullPath(workspacePath, relativePath)
           got == readFile(d, fullPath)
       IN IF ~existsSync(d, fullPath) THEN Refused("File not found", d)
          ELSE IF got.threw THEN Refused(SystemError, d)
          ELSE FileResult(TRUE, "none", got.bytes, 0, d, {Location(fullPath)}, {})

\* editFile(workspacePath, relativePath, edits)
editFile(d, workspacePath, relativePath, edits) ==
  IF ~isPathInWorkspace(workspacePath, relativePath)
  THEN Refused("Path is outside workspace", d)
  ELSE LET fullPath == getFullPath(workspacePath, relativePath)
           got == readFile(d, fullPath)
           edited == applyEdits(got.bytes, edits, 0)
           wrote == writeFile(d, fullPath, edited.content)
       IN IF ~existsSync(d, fullPath) THEN Refused("File not found", d)
          ELSE IF got.threw THEN Refused(SystemError, d)
          ELSE IF ~edited.found
          THEN FileResult(FALSE, "Could not find content to replace", << >>, 0,
                          d, {Location(fullPath)}, {})
          ELSE IF wrote.threw
          THEN FileResult(FALSE, SystemError, << >>, 0, d, {Location(fullPath)}, {})
          ELSE FileResult(TRUE, "none", edited.content, edited.editsApplied,
                          wrote.disk, {Location(fullPath)}, wrote.made)

\* deleteFile(workspacePath, relativePath)
deleteFile(d, workspacePath, relativePath) ==
  IF ~isPathInWorkspace(workspacePath, relativePath)
  THEN Refused("Path is outside workspace", d)
  ELSE LET fullPath == getFullPath(workspacePath, relativePath)
           gone == unlink(d, fullPath)
       IN IF ~existsSync(d, fullPath) THEN Refused("File not found", d)
          ELSE IF gone.threw THEN Refused(SystemError, d)
          ELSE FileResult(TRUE, "none", << >>, 0, gone.disk, {}, gone.made)

\* listFiles(workspacePath, relativePath, recursive): the entries are given
\* by their locations; a path that names a file makes readdir throw, and the
\* function with it
listFiles(d, workspacePath, relativePath, recursive) ==
  LET fullPath == getFullPath(workspacePath, relativePath)
      location == Location(fullPath)
      listed == IF recursive THEN Descendants(d, location)
                ELSE Children(d, location)
  IN IF ~existsSync(d, fullPath)
     THEN FileResult(TRUE, "none", << >>, 0, d, {}, {})
     ELSE IF ~d[location].dir
     THEN [Refused(SystemError, d) EXCEPT !.threw = TRUE]
     ELSE [FileResult(TRUE, "none", << >>, 0, d, {location} \cup listed, {})
             EXCEPT !.files = listed]

\* workspaceBaseDir and the directory createWorkspace made in it
workspaceBaseDir == <<"/", "w">>
workspacePath == workspaceBaseDir \o <<"/", "i">>

\* a directory of the base whose name starts with the workspace's name, and
\* a file in it
siblingPath == workspaceBaseDir \o <<"/", "i", "a">>
siblingFile == siblingPath \o <<"/", "a">>

\* the host filesystem around an empty workspace
EmptyWorkspace ==
  (<<"/">> :> Directory) @@ (workspaceBaseDir :> Directory)
  @@ (workspacePath :> Directory) @@ (siblingPath :> Directory)
  @@ (siblingFile :> RegularFile(<<"y">>))
  @@ ((workspaceBaseDir \o <<"/", "a">>) :> RegularFile(<<"y">>))

\* the bytes of the files earlier calls left in the workspace
StoredContents == { <<"y", "x", "y">>, <<"x">>, << >> }

\* the workspaces a call may find: empty, holding the file "a", holding the
\* directory "a" with the file "a/a"
InitialDisks ==
  { EmptyWorkspace }
  \cup { ((workspacePath \o <<"/", "a">>) :> RegularFile(bytes)) @@ EmptyWorkspace :
           bytes \in StoredContents }
  \cup { ((workspacePath \o <<"/", "a">>) :> Directory)
           @@ ((workspacePath \o <<"/", "a", "/", "a">>) :> RegularFile(bytes))
           @@ EmptyWorkspace : bytes \in StoredContents }

\* the path strings handed to the primitives: every string of up to MaxSegs
\* segments joined by "/", and the path of the sibling's file
PathSegments == { << >>, <<".">>, <<".", ".">>, <<"a">>, <<"i", "a">> }

RelativePaths ==
  { JoinSlash(segments) : segments \in SeqsUpTo(PathSegments, MaxSegs) }
  \cup { <<".", ".", "/", "i", "a", "/", "a">> }

FileContents == { <<"x">>, << >> }

Edit(oldContent, newContent) ==
  [oldContent |-> oldContent, newContent |-> newContent]

\* the edits of an editFile: one edit, two edits that meet in the buffer, a
\* second edit whose oldContent is missing, a newContent with a "$"
EditLists ==
  { << Edit(<<"y">>, <<"x">>) >>,
    << Edit(<<"y">>, <<"x", "y">>), Edit(<<"x", "y">>, <<"y">>) >>,
    << Edit(<<"x">>, <<"y">>), Edit(<<"x">>, << >>) >>,
    << Edit(<<"y">>, <<"$", "&">>) >>,
    << Edit(<<"x">>, <<"$", "$">>), Edit(<<"y">>, <<"x">>) >> }

NoFsCall ==
  [op |-> "none", path |-> << >>, content |-> << >>,
   overwrite |-> FALSE, edits |-> << >>, recursive |-> FALSE,
   before |-> << >>, result |-> Refused("none", << >>)]

InitDisk ==
  /\ preset = "standard"
  /\ RunsIdle /\ ConcIdle /\ RulesIdle /\ ExecIdle /\ PureIdle /\ SpaceIdle /\ BoxIdle
  /\ disk \in InitialDisks
  /\ fsLast = NoFsCall

\* a primitive returned `result` for the call `call`, the one call made on
\* the workspace
Returned(call, result) ==
  /\ fsLast.op = "none"
  /\ disk' = result.disk
  /\ fsLast' = [call EXCEPT !.before = disk,
                             !.result = [result EXCEPT !.disk = << >>]]
  /\ UNCHANGED <<runVars, concVars, ruleVars, exec, pureVars, space, box>>

\* Sandbox.createFile(path, content, {overwrite})
sandboxCreateFile(path, content, overwrite) ==
  Returned([NoFsCall EXCEPT !.op = "createFile", !.path = path,
                            !.content = content, !.overwrite = overwrite],
           createFile(disk, workspacePath, path, content, overwrite))

\* Sandbox.readFile(path)
sandboxReadFile(path) ==
  Returned([NoFsCall EXCEPT !.op = "readFile", !.path = path],
           readFileContent(disk, workspacePath, path))

\* Sandbox.editFile(path, edits)
sandboxEditFile(path, edits) ==
  Returned([NoFsCall EXCEPT !.op = "editFile", !.path = path, !.edits = edits],
           editFile(disk, workspacePath, path, edits))

\* Sandbox.deleteFile(path)
sandboxDeleteFile(path) ==
  Returned([NoFsCall EXCEPT !.op = "deleteFile", !.path = path],
           deleteFile(disk, workspacePath, path))

\* Sandbox.listFiles(path, recursive)
sandboxListFiles(path, recursive) ==
  Returned([NoFsCall EXCEPT !.op = "listFiles", !.path = path,
                            !.recursive = recursive],
           listFiles(disk, workspacePath, path, recursive))

CreatesFile ==
  \E path \in RelativePaths, content \in FileContents, overwrite \in BOOLEAN :
    sandboxCreateFile(path, content, overwrite)

ReadsFile == \E path \in RelativePaths : sandboxReadFile(path)

EditsFile ==
  \E path \in RelativePaths, edits \in EditLists : sandboxEditFile(path, edits)

DeletesFile == \E path \in RelativePaths : sandboxDeleteFile(path)

ListsFiles ==
  \E path \in RelativePaths, recursive \in BOOLEAN :
    sandboxListFiles(path, recursive)

NextDisk == CreatesFile \/ ReadsFile \/ EditsFile \/ DeletesFile \/ ListsFiles

SpecDisk == InitDisk /\ [][NextDisk]_vars

(***************************************************************************)
(* The primitives on a sandbox that was destroyed: Sandbox.destroy removes *)
(* the workspace directory, and a caller that still holds the Sandbox      *)
(* object makes its one call after it.                                     *)
(***************************************************************************)
\* rm(path, {recursive: true, force: true})
rm(d, fullPath) ==
  LET location == Location(fullPath)
      gone == {location} \cup Descendants(d, location)
  IN [l \in DOMAIN d \ gone |-> d[l]]

\* destroyWorkspace(workspacePath) on the host filesystem
removeWorkspace(d, path) == IF existsSync(d, path) THEN rm(d, path) ELSE d

\* Sandbox.destroy() returned: the workspace directory is gone
sandboxDestroyed ==
  /\ fsLast.op = "none"
  /\ workspacePath \in DOMAIN disk
  /\ disk' = removeWorkspace(disk, workspacePath)
  /\ UNCHANGED <<runVars, concVars, ruleVars, exec, pureVars, fsLast, space, box>>

NextGone ==
  \/ sandboxDestroyed
  \/ CreatesFile \/ ReadsFile \/ EditsFile \/ DeletesFile \/ ListsFiles

SpecGone == InitDisk /\ [][NextGone]_vars

(***************************************************************************)
(* One Sandbox with its container: the exec calls made on it, one at a     *)
(* time, each at its await point, and a SpaceService.destroy that may      *)
(* overlap them.  `docker` is the container as Docker has it, `alive` says *)
(* that the process of the exec in flight runs, `ends` that the command    *)
(* ends by itself.                                                         *)
(***************************************************************************)
\* a space right after SpaceService.create
ReadyBox ==
  [sandboxes |-> TRUE, container |-> TRUE, status |-> "ready",
   docker |-> "running", workspace |-> TRUE, destroy |-> "idle",
   pc |-> "idle", timer |-> "none", timedOut |-> FALSE, ends |-> FALSE,
   alive |-> FALSE, result |-> "none", execs |-> 0,
   erred |-> FALSE, timeouts |-> 0]

InitBox ==
  /\ preset = "standard"
  /\ RunsIdle /\ ConcIdle /\ RulesIdle /\ ExecIdle /\ PureIdle /\ DiskIdle
  /\ SpaceIdle
  /\ box = ReadyBox

BoxStep(after) ==
  /\ box' = after
  /\ UNCHANGED <<runVars, concVars, ruleVars, exec, pureVars, diskVars, space>>

\* Sandbox.exec returns `result` to its caller with the status it leaves
execReturns(b, status, result) ==
  [b EXCEPT !.pc = "idle", !.status = status, !.result = result,
            !.alive = FALSE,
            !.timer = IF @ = "armed" THEN "cleared" ELSE @,
            !.erred = @ \/ (status = "error"),
            !.timeouts = IF result = "timed out" THEN 1 ELSE @]

\* RunService.create with one allowed shell operation, up to the first
\* await: the lookup in the registry, then Sandbox.exec up to
\* `await container.exec(...)`
runShell(ends) ==
  /\ box.pc = "idle"
  /\ box.execs < MaxExecs
  /\ BoxStep(
       IF ~box.sandboxes
       THEN [box EXCEPT !.execs = @ + 1, !.result = "space not found"]
       ELSE IF ~box.container
       THEN [box EXCEPT !.execs = @ + 1, !.result = "Sandbox not initialized"]
       ELSE [box EXCEPT !.execs = @ + 1, !.status = "running",
                        !.pc = "create", !.result = "none", !.ends = ends,
                        !.timedOut = FALSE, !.timer = "none"])

\* `await container.exec(execConfig)`: Docker creates the exec if the
\* container runs; a throw is caught by Sandbox.exec, which sets `error`
containerExec(created) ==
  /\ box.pc = "create"
  /\ created => box.docker = "running"
  /\ BoxStep(IF created
             THEN [box EXCEPT !.pc = "start", !.timer = "armed"]
             ELSE execReturns(box, "error", "failed"))

\* the callback of exec.start: an error, or the stream
execStarted(err) ==
  /\ box.pc = "start"
  /\ ~err => box.docker = "running"
  /\ BoxStep(IF err THEN execReturns(box, "ready", "not started")
             ELSE [box EXCEPT !.pc = "stream", !.alive = TRUE])

\* the command ends by itself
commandEnds ==
  /\ box.pc = "stream" /\ box.alive /\ box.ends
  /\ BoxStep([box EXCEPT !.alive = FALSE])

\* the timer's callback: timedOut is set, exec.inspect() is awaited with no
\* catch, and the container is sent SIGKILL if the exec is running
timerFires(inspectRejects, killFails) ==
  /\ box.timer = "armed"
  /\ box.pc \in {"start", "stream"}
  /\ BoxStep(
       LET fired == [box EXCEPT !.timer = "fired", !.timedOut = TRUE]
       IN IF inspectRejects \/ ~box.alive \/ killFails \/ box.docker # "running"
          THEN fired
          ELSE [fired EXCEPT !.docker = "exited", !.alive = FALSE])

\* the stream's `end`, once the process of the exec is gone
streamEnded(exitOk) ==
  /\ box.pc = "stream" /\ ~box.alive
  /\ BoxStep(execReturns(box, "ready",
                         IF box.timedOut THEN "timed out"
                         ELSE IF exitOk THEN "success" ELSE "failed"))

\* the stream's `error`
streamFailed ==
  /\ box.pc = "stream"
  /\ BoxStep(execReturns(box, "ready", "failed"))

\* SpaceService.destroy(id) up to its first await: the sandbox is taken from
\* the map and Sandbox.destroy is entered
destroyBegins ==
  /\ box.destroy = "idle"
  /\ box.sandboxes
  /\ BoxStep([box EXCEPT !.destroy = IF box.container THEN "container"
                                     ELSE "workspace"])

\* `await destroyContainer(this.container)` returned
containerDestroyed ==
  /\ box.destroy = "container"
  /\ BoxStep([box EXCEPT !.docker = "removed", !.alive = FALSE,
                         !.container = FALSE, !.destroy = "workspace"])

\* `await destroyWorkspace(...)` returned; Sandbox.destroy ends and
\* SpaceService.destroy deletes the entries of the maps
workspaceDestroyed ==
  /\ box.destroy = "workspace"
  /\ BoxStep([box EXCEPT !.workspace = FALSE, !.status = "stopped",
                         !.sandboxes = FALSE, !.destroy = "done"])

RunsShell == \E ends \in BOOLEAN : runShell(ends)

ContainerExecs == \E created \in BOOLEAN : containerExec(created)

ExecStarted == \E err \in BOOLEAN : execStarted(err)

TimerFires ==
  \E inspectRejects \in BOOLEAN, killFails \in BOOLEAN :
    timerFires(inspectRejects, killFails)

StreamEnded == \E exitOk \in BOOLEAN : streamEnded(exitOk)

NextBox ==
  \/ RunsShell
  \/ ContainerExecs
  \/ ExecStarted
  \/ commandEnds
  \/ TimerFires
  \/ StreamEnded
  \/ streamFailed
  \/ destroyBegins
  \/ containerDestroyed
  \/ workspaceDestroyed

SpecBox == InitBox /\ [][NextBox]_vars

\* the event loop runs every callback that is due: Docker answers, the timer
\* fires, a command that ends ends, the stream's end is delivered
SpecBoxLive ==
  /\ SpecBox
  /\ WF_vars(ContainerExecs) /\ WF_vars(ExecStarted) /\ WF_vars(commandEnds)
  /\ WF_vars(TimerFires) /\ WF_vars(StreamEnded)

(***************************************************************************)
(* The life of spaces: SpaceService.create and SpaceService.destroy with   *)
(* the Sandbox they hold.  `space.spaces[id]` is everything kept for one   *)
(* id: the two registry maps, the row of the database, the fields of the   *)
(* Sandbox object, the container as Docker has it and the workspace        *)
(* directory; `stops` and `removes` count the calls of container.stop and  *)
(* container.remove, `calls` the destroy calls made for the id.            *)
(***************************************************************************)
SpaceIds == 1..MaxSpaces

\* an id for which nothing was created
NoSpace ==
  [sandboxes |-> FALSE, policyEngines |-> FALSE, status |-> "none",
   container |-> FALSE, sandboxStatus |-> "none", docker |-> "none",
   workspace |-> FALSE, stops |-> 0, removes |-> 0, calls |-> 0,
   destroyed |-> FALSE]

NoSpaceCall == [op |-> "none", id |-> 0, threw |-> FALSE, before |-> NoSpace]

InitSpace ==
  /\ preset = "standard"
  /\ RunsIdle /\ ConcIdle /\ RulesIdle /\ ExecIdle /\ PureIdle /\ DiskIdle
  /\ BoxIdle
  /\ space = [spaces |-> [id \in SpaceIds |-> NoSpace], last |-> NoSpaceCall]

\* destroyContainer(container): container.stop and container.remove, each
\* with its error swallowed (stop throws unless the container runs, remove
\* throws once the container is gone)
destroyContainer(s) ==
  [s EXCEPT !.stops = @ + 1, !.removes = @ + 1, !.docker = "removed"]

\* destroyWorkspace(workspacePath): rm only if the directory exists; rm may
\* throw (for example a file in use)
destroyWorkspace(s, rmThrows) ==
  IF s.workspace
  THEN IF rmThrows THEN [sandbox |-> s, threw |-> TRUE]
       ELSE [sandbox |-> [s EXCEPT !.workspace = FALSE], threw |-> FALSE]
  ELSE [sandbox |-> s, threw |-> FALSE]

\* a Sandbox.destroy that keeps its container reference
sandboxDestroyKeepsContainer(s, rmThrows) ==
  LET stopped == IF s.container THEN destroyContainer(s) ELSE s
      removed == destroyWorkspace(stopped, rmThrows)
  IN IF removed.threw THEN removed
     ELSE [removed EXCEPT !.sandbox.sandboxStatus = "stopped"]

\* Sandbox.destroy()
sandboxDestroy(s, rmThrows) ==
  LET stopped == IF s.container
                 THEN [destroyContainer(s) EXCEPT !.container = FALSE]
                 ELSE s
      removed == destroyWorkspace(stopped, rmThrows)
  IN IF removed.threw THEN removed
     ELSE [removed EXCEPT !.sandbox.sandboxStatus = "stopped"]

\* SpaceService.destroy(id) from the removal of the policy engine on; the
\* update touches the row of the id if there is one
forgetSpace(s) ==
  [s EXCEPT !.policyEngines = FALSE,
            !.status = IF @ = "none" THEN "none" ELSE "destroyed",
            !.destroyed = TRUE]

\* SpaceService.destroy(id)
spaceServiceDestroy(s, rmThrows) ==
  IF s.sandboxes
  THEN LET destroyedSandbox == sandboxDestroy(s, rmThrows)
       IN IF destroyedSandbox.threw THEN destroyedSandbox
          ELSE [sandbox |-> forgetSpace([destroyedSandbox.sandbox
                                           EXCEPT !.sandboxes = FALSE]),
                threw |-> FALSE]
  ELSE [sandbox |-> forgetSpace(s), threw |-> FALSE]

\* a call for `id` returned or threw
SpaceCalled(op, id, outcome) ==
  /\ space' = [spaces |-> [space.spaces EXCEPT ![id] = outcome.sandbox],
               last |-> [op |-> op, id |-> id, threw |-> outcome.threw,
                         before |-> space.spaces[id]]]
  /\ UNCHANGED <<runVars, concVars, ruleVars, exec, pureVars, diskVars, box>>

\* where SpaceService.create may throw: nowhere, in createContainer, in the
\* construction of the policy engine (getPreset on an unknown name), in the
\* insert of the row
CreateFailures == {"none", "container", "policy", "insert"}

\* SpaceService.create(options): Sandbox.create makes the workspace and then
\* the container, the sandbox and the policy engine are put in the maps and
\* the row is inserted; a throw leaves what was done before it
spaceServiceCreate(id, failure) ==
  LET made == [NoSpace EXCEPT !.workspace = TRUE]
      started == [made EXCEPT !.container = TRUE, !.docker = "running",
                              !.sandboxStatus = "ready", !.sandboxes = TRUE]
      engined == [started EXCEPT !.policyEngines = TRUE]
      inserted == [engined EXCEPT !.status = "ready"]
  IN /\ space.spaces[id] = NoSpace
     /\ SpaceCalled("SpaceService.create", id,
          [sandbox |-> CASE failure = "container" -> made
                         [] failure = "policy" -> started
                         [] failure = "insert" -> engined
                         [] OTHER -> inserted,
           threw |-> failure # "none"])

\* the container's process ends by itself
containerExits(id) ==
  /\ space.spaces[id].docker = "running"
  /\ space' = [space EXCEPT !.spaces[id].docker = "exited",
                            !.last = NoSpaceCall]
  /\ UNCHANGED <<runVars, concVars, ruleVars, exec, pureVars, diskVars, box>>

\* SpaceService.destroy(id), for any id
destroySpace(id, rmThrows) ==
  /\ space.spaces[id].calls < MaxDestroys
  /\ SpaceCalled("SpaceService.destroy", id,
       spaceServiceDestroy([space.spaces[id] EXCEPT !.calls = @ + 1], rmThrows))

\* Sandbox.destroy() on the Sandbox object made for the id
destroySandbox(id, rmThrows) ==
  /\ space.spaces[id].sandboxStatus # "none"
  /\ space.spaces[id].calls < MaxDestroys
  /\ SpaceCalled("Sandbox.destroy", id,
       sandboxDestroy([space.spaces[id] EXCEPT !.calls = @ + 1], rmThrows))

CreatesSpace ==
  \E id \in SpaceIds, failure \in CreateFailures :
    spaceServiceCreate(id, failure)

ContainerExits == \E id \in SpaceIds : containerExits(id)

DestroysSpace ==
  \E id \in SpaceIds, rmThrows \in BOOLEAN : destroySpace(id, rmThrows)

DestroysSandbox ==
  \E id \in SpaceIds, rmThrows \in BOOLEAN : destroySandbox(id, rmThrows)

NextSpace == CreatesSpace \/ ContainerExits \/ DestroysSpace \/ DestroysSandbox

SpecSpace == InitSpace /\ [][NextSpace]_vars

(***************************************************************************)
(* Vocabulary of the properties.                                           *)
(***************************************************************************)
\* the policy decision for an operation of the space
Decision(operation) ==
  LET r == policyEngineEvaluate(preset, operation)
  IN IF ~r.allowed THEN "Deny"
     ELSE IF r.requiresApproval THEN "RequireApproval" ELSE "Allow"

\* the last call was an accepted resume with the given decision that named
\* the operation at which the run was suspended
ResumedPending(decision) ==
  /\ last.call = "resume"
  /\ last.outcome = "ok"
  /\ last.decision = decision
  /\ last.pendingIndex = last.pendingBefore

\* the event the main loop produces for an operation it evaluates normally
NormalEvent(event, operation) ==
  CASE Decision(operation) = "Deny" -> event.type = "policyDenied"
    [] Decision(operation) = "RequireApproval" -> event.type = "approvalRequired"
    [] OTHER -> event.type = operation.type

\* number of approval-gated operations of a vector
RECURSIVE GatedCount(_)
GatedCount(operations) ==
  IF operations = <<>> THEN 0
  ELSE (IF Decision(Head(operations)) = "RequireApproval" THEN 1 ELSE 0)
       + GatedCount(Tail(operations))

(***************************************************************************)
(* C1.  A resume with decision approved, for a run suspended at operation  *)
(* k, executes operation k with the policy check bypassed: the first new   *)
(* event is operation k's own-typed event, never another approvalRequired, *)
(* and the operations after k are evaluated against the policy normally.   *)
(***************************************************************************)
C1_ApprovedExecutesPending ==
  ResumedPending("approved") =>
    LET operations == runs[last.runId].operations
        k == last.pendingIndex
    IN /\ Len(last.newEvents) >= 1
       /\ last.newEvents[1].type = operations[k + 1].type
       /\ \A i \in 2..Len(last.newEvents) :
            NormalEvent(last.newEvents[i], operations[k + i])

(***************************************************************************)
(* C2.  A resume with decision denied, for a run suspended at operation k, *)
(* appends one policyDenied event for k (the decider's reason, or          *)
(* "Approval denied by user") and re-enters the loop at k+1: every later   *)
(* operation is evaluated in order, and the run is completed only after    *)
(* the last one was evaluated (or awaiting approval at a later gate).      *)
(***************************************************************************)
C2_DeniedContinuesAfterPending ==
  ResumedPending("denied") =>
    LET run == runs[last.runId]
        k == last.pendingIndex
        n == Len(run.operations)
    IN /\ Len(last.newEvents) >= 1
       /\ last.newEvents[1].type = "policyDenied"
       /\ last.newEvents[1].operationType = run.operations[k + 1].type
       /\ \A i \in 2..Len(last.newEvents) :
            NormalEvent(last.newEvents[i], run.operations[k + i])
       /\ last.status = "completed" => Len(last.newEvents) = n - k
       /\ last.status = "awaiting_approval" =>
            last.newEvents[Len(last.newEvents)].type = "approvalRequired"

(***************************************************************************)
(* C3.  Every run persisted as completed, reached by create alone or by    *)
(* create followed by resume calls, has len(events) = len(operations), the *)
(* i-th event being the own-typed event of operations[i] or policyDenied.  *)
(***************************************************************************)
PositionalEvents(run) ==
  /\ Len(run.events) = Len(run.operations)
  /\ \A i \in 1..Len(run.events) :
       run.events[i].type \in {run.operations[i].type, "policyDenied"}

\* C3 as stated: for every completed run, resumed or not
C3_CompletedPositional ==
  \A id \in DOMAIN runs :
    runs[id].status = "completed" => PositionalEvents(runs[id])

\* C3 amended: for every run persisted as completed by create (no resume
\* decision accepted since), len(events) = len(operations) and the i-th event
\* is the own-typed event of operations[i] or policyDenied; the events a resume
\* appends follow the approvalRequired events already stored
C3_CreateCompletedPositional ==
  \A id \in DOMAIN runs :
    (runs[id].status = "completed" /\ approvals[id] = <<>>) =>
      /\ PositionalEvents(runs[id])
      /\ \A i \in 1..Len(runs[id].events) :
           NormalEvent(runs[id].events[i], runs[id].operations[i])

\* a create completed a batch of MaxOps operations, one denied, one executed
C3_Witness ==
  \E id \in DOMAIN runs :
    /\ runs[id].status = "completed"
    /\ approvals[id] = <<>>
    /\ Len(runs[id].operations) = MaxOps
    /\ \E i, j \in 1..Len(runs[id].events) :
         /\ runs[id].events[i].type = "policyDenied"
         /\ runs[id].events[j].type = "createFile"

(***************************************************************************)
(* C4.  In every state of every persisted run, after create and after any  *)
(* number of resumes, len(events) <= len(operations) and every event that  *)
(* carries an operationId carries the id of the operation at its position. *)
(***************************************************************************)
\* the event carries an operationId (absent and '' are both "none")
CarriesId(event) == event.operationId \notin {NoId, ""}

PositionalIds(run) ==
  /\ Len(run.events) <= Len(run.operations)
  /\ \A i \in 1..Len(run.events) :
       CarriesId(run.events[i]) =>
         run.events[i].operationId = run.operations[i].id

\* C4 as stated: for every run, resumed or not
C4_EventsWithinOperations == \A id \in DOMAIN runs : PositionalIds(runs[id])

\* C4 amended: for every run as persisted by create (no resume decision
\* accepted since), len(events) <= len(operations) and every event that carries
\* an operationId carries the id of the operation at its position; an accepted
\* resume appends its events after the stored ones, approvalRequired included
C4_CreateEventsWithinOperations ==
  \A id \in DOMAIN runs :
    approvals[id] = <<>> =>
      /\ PositionalIds(runs[id])
      /\ \A i \in 1..Len(runs[id].events) :
           OrEmpty(runs[id].events[i].operationId) = OrEmpty(runs[id].operations[i].id)

\* a create stored fewer events than operations, with ids carried
C4_Witness ==
  \E id \in DOMAIN runs :
    /\ approvals[id] = <<>>
    /\ Len(runs[id].events) < Len(runs[id].operations)
    /\ \E i \in 1..Len(runs[id].events) : CarriesId(runs[id].events[i])

(***************************************************************************)
(* C5.  Every run persisted as awaiting_approval, after create or after a  *)
(* resume that suspended again, ends with an approvalRequired event, and   *)
(* pendingApproval.operationId is the id of the operation at index         *)
(* len(events)-1.                                                          *)
(***************************************************************************)
LastIsApprovalRequired(run) ==
  /\ run.events # <<>>
  /\ run.events[Len(run.events)].type = "approvalRequired"
  /\ ~run.pendingApproval.isNull
  /\ run.events[Len(run.events)].operationId = run.pendingApproval.operationId

\* the pending id is the id of the operation at index len(events)-1 (an
\* operation without id is advertised as '')
PendingIsAtLastIndex(run) ==
  /\ Len(run.events) <= Len(run.operations)
  /\ run.pendingApproval.operationId = OrEmpty(run.operations[Len(run.events)].id)

\* C5 as stated: for every suspended run, resumed or not
C5_PendingAtLastEvent ==
  \A id \in DOMAIN runs :
    runs[id].status = "awaiting_approval" =>
      LastIsApprovalRequired(runs[id]) /\ PendingIsAtLastIndex(runs[id])

\* C5 amended: for every run persisted as awaiting_approval the last event is
\* an approvalRequired event that carries pendingApproval.operationId; for a
\* run as persisted by create (no resume decision accepted since) that id is the
\* id of the operation at index len(events)-1, '' if the operation has no id
C5_PendingIsLastEvent ==
  \A id \in DOMAIN runs :
    runs[id].status = "awaiting_approval" =>
      /\ LastIsApprovalRequired(runs[id])
      /\ approvals[id] = <<>> =>
           /\ PendingIsAtLastIndex(runs[id])
           /\ pendingAt[id] = Len(runs[id].events) - 1

\* an approved resume suspended the run again
C5_Witness ==
  \E id \in DOMAIN runs :
    /\ runs[id].status = "awaiting_approval"
    /\ approvals[id] # <<>>
    /\ last.call = "resume" /\ last.outcome = "ok"
    /\ Len(last.newEvents) >= 2

(***************************************************************************)
(* C6.  executeRun stops before the end of its operations vector if and    *)
(* only if an operation's decision is RequireApproval: after an operation  *)
(* whose sandbox result is success=false and after an operation the policy *)
(* denies, the next operation is still evaluated and produces an event.    *)
(***************************************************************************)
\* the last call ran the executor
ExecutorRan == last.call \in {"create", "resume"} /\ last.execFrom >= 1

C6_OnlyApprovalSuspends ==
  ExecutorRan =>
    LET operations == last.execOperations
        events == last.newEvents
        n == Len(operations)
        m == Len(events)
        gated == { i \in 1..n : Decision(operations[i]) = "RequireApproval" }
    IN /\ m <= n
       \* every evaluated operation that is not a gate is followed by the next
       /\ \A i \in 1..m :
            (i < n /\ events[i].type # "approvalRequired") => m >= i + 1
       \* it stops short exactly at the first gate
       /\ (m < n) => (gated # {} /\ \A i \in gated : i >= m)
       /\ (gated # {}) => (m \in gated /\ \A i \in gated : i >= m
                           /\ last.status = "awaiting_approval")
       /\ (gated = {}) => (m = n /\ last.status = "completed")
       /\ \A i \in 1..m : NormalEvent(events[i], operations[i])

\* an executor call went on after a failed sandbox operation to an operation
\* the policy denied, and completed
C6_Witness ==
  /\ ExecutorRan
  /\ last.status = "completed"
  /\ Len(last.newEvents) >= 2
  /\ last.newEvents[1].type = "createFile"
  /\ ~last.newEvents[1].success
  /\ last.newEvents[2].type = "policyDenied"

(***************************************************************************)
(* C7.  When executeRun suspends at operation i, no operation at an index  *)
(* greater than i has been dispatched to the sandbox, none is dispatched   *)
(* until a resume decision for the run is accepted, and the full           *)
(* operations vector stays stored in the run.                              *)
(***************************************************************************)
\* nothing past the suspending operation was dispatched by the call, nor, for
\* a run suspended by create, at all; create stores the submitted vector
SuspendedBeforeLater ==
  /\ (ExecutorRan /\ last.outcome = "ok" /\ last.status = "awaiting_approval") =>
       \A j \in 1..Len(last.dispatched) :
         last.dispatched[j] < last.execFrom + Len(last.newEvents) - 1
  /\ \A id \in DOMAIN runs :
       (runs[id].status = "awaiting_approval" /\ approvals[id] = <<>>) =>
         \A j \in 1..Len(sandboxLog[id]) : sandboxLog[id][j] < pendingAt[id] + 1
  /\ (last.call = "create" /\ last.outcome = "ok") =>
       runs[last.runId].operations = last.execOperations

\* the sandbox is called for a stored run only by an accepted resume, and the
\* stored operations never change
DispatchOnlyOnAcceptedResume ==
  \A id \in DOMAIN runs :
    /\ runs'[id].operations = runs[id].operations
    /\ sandboxLog'[id] # sandboxLog[id] =>
         Len(approvals'[id]) = Len(approvals[id]) + 1

C7_NothingDispatchedPastSuspension ==
  [](SuspendedBeforeLater) /\ [][DispatchOnlyOnAcceptedResume]_vars

\* a create dispatched an operation and suspended at a later one; a resume
\* naming no operation of the run was then rejected and dispatched nothing
C7_Witness ==
  \E id \in DOMAIN runs :
    /\ runs[id].status = "awaiting_approval"
    /\ approvals[id] = <<>>
    /\ sandboxLog[id] # <<>>
    /\ last.call = "resume" /\ last.outcome = "Operation not found in run"

(***************************************************************************)
(* C8.  Across create and any resumes, an operation is dispatched to the   *)
(* sandbox only if its decision was Allow, or RequireApproval with an      *)
(* approved decision accepted for it: a denied operation is never          *)
(* dispatched, a gated one never before approval or after a denial.        *)
(***************************************************************************)
ApprovedFor(id, position) ==
  \E a \in 1..Len(approvals[id]) :
    /\ approvals[id][a].decision = "approved"
    /\ approvals[id][a].pendingIndex + 1 = position

C8_DispatchOnlyIfAllowedOrApproved ==
  \A id \in DOMAIN runs :
    \A j \in 1..Len(sandboxLog[id]) :
      LET position == sandboxLog[id][j]
          d == Decision(runs[id].operations[position])
      IN /\ position \in 1..Len(runs[id].operations)
         /\ d # "Deny"
         /\ d = "Allow" \/ (d = "RequireApproval" /\ ApprovedFor(id, position))

\* the sandbox was called for a run that holds a gated operation and an
\* allowed one that needs a sandbox primitive, and a resume was accepted
C8_Witness ==
  \E id \in DOMAIN runs :
    /\ sandboxLog[id] # <<>>
    /\ approvals[id] # <<>>
    /\ \E i, j \in 1..Len(runs[id].operations) :
         /\ Decision(runs[id].operations[i]) = "RequireApproval"
         /\ Decision(runs[id].operations[j]) = "Allow"
         /\ CallsSandbox(runs[id].operations[j])

(***************************************************************************)
(* C9.  If every approval request of a run is answered with approved, the  *)
(* run reaches completed: a run with g approval-gated operations is        *)
(* completed after at most g accepted resume calls.                        *)
(***************************************************************************)
\* every accepted decision was an approval of the operation then pending
AllApprovedAsAdvertised(id) ==
  \A a \in 1..Len(approvals[id]) :
    /\ approvals[id][a].decision = "approved"
    /\ approvals[id][a].operationId = approvals[id][a].advertised
    /\ approvals[id][a].pendingIndex = approvals[id][a].pendingBefore

C9_ApprovedRunCompletes ==
  \A id \in DOMAIN runs :
    ( /\ AllApprovedAsAdvertised(id)
      /\ Len(approvals[id]) >= GatedCount(runs[id].operations)
      /\ runs[id].status # "cancelled" )
    => runs[id].status = "completed"

(***************************************************************************)
(* C10.  A resume of a run whose persisted status is not awaiting_approval *)
(* is rejected with an error, dispatches nothing to the sandbox and leaves *)
(* the run's status, events and pendingApproval unchanged.                 *)
(***************************************************************************)
ResumeOfSettledRunRejected ==
  \A id \in DOMAIN runs :
    (last'.call = "resume" /\ last'.runId = id /\ last' # last
     /\ runs[id].status # "awaiting_approval") =>
      /\ last'.outcome = "Run is not awaiting approval"
      /\ runs'[id] = runs[id]
      /\ sandboxLog' = sandboxLog
      /\ approvals' = approvals

C10_ResumeOfSettledRunRejected == [][ResumeOfSettledRunRejected]_vars

\* a resume was rejected for a cancelled run that still holds its events
C10_Witness ==
  \E id \in DOMAIN runs :
    /\ last.call = "resume" /\ last.runId = id
    /\ last.outcome = "Run is not awaiting approval"
    /\ runs[id].status = "cancelled"
    /\ ~runs[id].pendingApproval.isNull

(***************************************************************************)
(* C11.  A resume whose approval.operationId is not the id of the run's    *)
(* pending operation (pendingApproval.operationId) is rejected: nothing is *)
(* dispatched and the run is unchanged, also when the id is that of        *)
(* another operation of the run.                                           *)
(***************************************************************************)
C11_MismatchedResumeRejected ==
  \A id \in DOMAIN runs :
    \A a \in 1..Len(approvals[id]) :
      approvals[id][a].operationId = approvals[id][a].advertised

(***************************************************************************)
(* C13.  A request of which any operation fails protocol validation (a     *)
(* path that is absolute or holds `..`) is rejected whole before           *)
(* execution: the call persists no run and dispatches nothing, so no       *)
(* persisted run holds an operation that fails validation.                 *)
(***************************************************************************)
\* the path of a file operation that the protocol refuses
FailsValidation(operation) ==
  /\ operation.type \in {"createFile", "readFile", "editFile", "deleteFile"}
  /\ \/ operation.path # <<>> /\ operation.path[1] = "/"
     \/ \E i \in 1..(Len(operation.path) - 1) :
          operation.path[i] = "." /\ operation.path[i + 1] = "."

NoInvalidOperationStored ==
  \A id \in DOMAIN runs :
    \A i \in 1..Len(runs[id].operations) : ~FailsValidation(runs[id].operations[i])

ValidationErrorChangesNothing ==
  (last'.call = "create" /\ last'.outcome = "VALIDATION_ERROR") =>
    /\ runs' = runs
    /\ sandboxLog' = sandboxLog

NeedsApprovalUnderStandard(operation) ==
  /\ operation.type = "shell"
  /\ shellMatchesAnyPattern(operation.command, standardPolicy.shell.approvalRequired)
  /\ ~shellMatchesAnyPattern(operation.command, standardPolicy.shell.blockedPatterns)

C18_StandardSuspendsAtRm ==
  (preset = "standard" /\ last.call = "create" /\ last.outcome = "ok"
   /\ last.execOperations # <<>>
   /\ NeedsApprovalUnderStandard(last.execOperations[1])) =>
    /\ Len(last.newEvents) = 1
    /\ last.newEvents[1].type = "approvalRequired"
    /\ last.newEvents[1].operationId = OrEmpty(last.execOperations[1].id)
    /\ last.status = "awaiting_approval"
    /\ runs[last.runId].pendingApproval.operationId
         = OrEmpty(last.execOperations[1].id)

(***************************************************************************)
(* C12.  After a cancel was applied to a run in awaiting_approval, the     *)
(* run's status is cancelled with completedAt set, and every later resume  *)
(* call for the run is rejected and dispatches nothing.                    *)
(***************************************************************************)
\* no resume call that arrived after the cancel of its run was accepted
C12_NoResumeAfterCancel ==
  \A c \in DOMAIN calls :
    (calls[c].kind = "resume" /\ calls[c].afterCancel) => ~calls[c].accepted

(***************************************************************************)
(* C14.  Within one space the sandbox dispatches of overlapping create or  *)
(* resume calls never interleave: all dispatches of one call happen before *)
(* the first dispatch of the other.                                        *)
(***************************************************************************)
C14_DispatchesNeverInterleave ==
  \A i, j, k \in 1..Len(dispatchLog) :
    (i < j /\ j < k /\ dispatchLog[i].call = dispatchLog[k].call) =>
      dispatchLog[j].call = dispatchLog[i].call

(***************************************************************************)
(* C15.  A pending approval is resolved exactly once: of two resume calls  *)
(* for the same run that overlap, at most one is accepted.                 *)
(***************************************************************************)
\* no resume was accepted while an accepted resume of the same run was still
\* between its read and its write
C15_OneResumeAccepted ==
  \A c \in DOMAIN calls :
    (calls[c].kind = "resume" /\ calls[c].accepted) => calls[c].overlaps = {}

(***************************************************************************)
(* C16.  A shell operation of a run runs under the effective timeout       *)
(* min(operation.timeout, policy.shell.timeout), the policy timeout when   *)
(* the operation gives none, and never under a timeout larger than the     *)
(* policy's: with a policy timeout of 2000 ms and none requested, a        *)
(* command that runs 10 s is timed out after about 2000 ms.                *)
(***************************************************************************)
EffectiveTimeout(requested, policyTimeout) ==
  IF requested = NoTimeout \/ requested > policyTimeout
  THEN policyTimeout ELSE requested

C16_RunsUnderPolicyTimeout ==
  exec.pc \in {"created", "running", "resolved"} =>
    /\ exec.timeout = EffectiveTimeout(exec.requested, exec.policyTimeout)
    /\ exec.timeout <= exec.policyTimeout

(***************************************************************************)
(* C17.  Whenever the timer of an exec expires before the command ends,    *)
(* the result has timedOut = true, exitCode = 124 and success = false,     *)
(* whatever exit code the container runtime reports for the killed         *)
(* process.                                                                *)
(***************************************************************************)
C17_TimeoutReports124 ==
  (exec.pc = "resolved" /\ exec.expired) =>
    /\ exec.result.timedOut
    /\ exec.result.exitCode = 124
    /\ ~exec.result.success

(***************************************************************************)
(* C19.  For every shell policy and command evaluateShellPolicy returns    *)
(* the decision of the fixed-priority reference: disabled ->               *)
(* Deny(shell.enabled); else a blocked pattern occurs in the raw command   *)
(* -> Deny(shell.blockedPatterns), also when the base token is             *)
(* allowlisted; else the allowlist is non-empty and the base token (the    *)
(* trimmed command up to its first space) is no exact entry ->             *)
(* Deny(shell.allowedCommands); else an approval pattern occurs ->         *)
(* RequireApproval(shell.approvalRequired); else Allow.                    *)
(***************************************************************************)
\* p occurs in s, character by character
Occurs(p, s) ==
  \E i \in 0..(Len(s) - Len(p)) : \A k \in 1..Len(p) : s[i + k] = p[k]

OccursAny(patterns, s) == \E n \in 1..Len(patterns) : Occurs(patterns[n], s)

\* the trimmed command up to its first space
BaseToken(command) ==
  LET solid == { i \in 1..Len(command) : command[i] \notin WhiteSpace }
  IN IF solid = {} THEN << >>
     ELSE LET first == CHOOSE i \in solid : \A j \in solid : i <= j
              final == CHOOSE i \in solid : \A j \in solid : i >= j
              spaces == { i \in first..final : command[i] = " " }
              stop == IF spaces = {} THEN final
                      ELSE (CHOOSE i \in spaces : \A j \in spaces : i <= j) - 1
          IN [k \in 1..(stop - first + 1) |-> command[first + k - 1]]

ShellReference(policy, command) ==
  IF ~policy.enabled THEN <<"Deny", "shell.enabled">>
  ELSE IF OccursAny(policy.blockedPatterns, command)
  THEN <<"Deny", "shell.blockedPatterns">>
  ELSE IF policy.allowedCommands # << >>
          /\ \A n \in 1..Len(policy.allowedCommands) :
               policy.allowedCommands[n] # BaseToken(command)
  THEN <<"Deny", "shell.allowedCommands">>
  ELSE IF OccursAny(policy.approvalRequired, command)
  THEN <<"RequireApproval", "shell.approvalRequired">>
  ELSE <<"Allow", "none">>

\* the decision and the policy tag of a PolicyEvaluation
Verdict(result) ==
  << IF ~result.allowed THEN "Deny"
     ELSE IF result.requiresApproval THEN "RequireApproval" ELSE "Allow",
     result.policy >>

C19_ShellFollowsReference ==
  shellCase.done =>
    /\ Verdict(shellCase.result) = ShellReference(shellCase.policy, shellCase.command)
    /\ ~shellCase.result.allowed => ~shellCase.result.requiresApproval

\* a command whose base token is allowlisted was denied for a blocked
\* pattern that occurs after the token
C19_Witness ==
  /\ shellCase.done
  /\ shellCase.policy.allowedCommands # << >>
  /\ \E n \in 1..Len(shellCase.policy.allowedCommands) :
       shellCase.policy.allowedCommands[n] = BaseToken(shellCase.command)
  /\ shellCase.result.policy = "shell.blockedPatterns"
  /\ ~shellCase.result.allowed

(***************************************************************************)
(* C20.  For every filesystem policy and every createFile, readFile,       *)
(* editFile or deleteFile operation PolicyEngine.evaluate returns the      *)
(* decision of the fixed-priority reference: disabled ->                   *)
(* Deny(filesystem.enabled); else write and readOnly ->                    *)
(* Deny(filesystem.readOnly); else a blockedPaths glob matches ->          *)
(* Deny(filesystem.blockedPaths); else allowedPaths non-empty and no glob  *)
(* matches -> Deny(filesystem.allowedPaths); else createFile with content  *)
(* larger than maxFileSize -> Deny(filesystem.maxFileSize); else Allow.    *)
(* It never returns RequireApproval.                                       *)
(***************************************************************************)
IsWrite(operation) == operation.type \in {"createFile", "editFile", "deleteFile"}

FilesystemReference(policy, operation) ==
  IF ~policy.enabled THEN <<"Deny", "filesystem.enabled">>
  ELSE IF IsWrite(operation) /\ policy.readOnly
  THEN <<"Deny", "filesystem.readOnly">>
  ELSE IF \E n \in 1..Len(policy.blockedPaths) :
            matchesPattern(operation.path, policy.blockedPaths[n])
  THEN <<"Deny", "filesystem.blockedPaths">>
  ELSE IF policy.allowedPaths # << >>
          /\ \A n \in 1..Len(policy.allowedPaths) :
               ~matchesPattern(operation.path, policy.allowedPaths[n])
  THEN <<"Deny", "filesystem.allowedPaths">>
  ELSE IF operation.type = "createFile" /\ Len(operation.content) > policy.maxFileSize
  THEN <<"Deny", "filesystem.maxFileSize">>
  ELSE <<"Allow", "none">>

C20_FilesystemFollowsReference ==
  fsCase.done =>
    /\ Verdict(fsCase.result)
         = FilesystemReference(fsCase.policy.filesystem, fsCase.operation)
    /\ ~fsCase.result.requiresApproval

\* a createFile that passed the path rules of a policy with blocked and
\* allowed paths was denied for its size
C20_Witness ==
  /\ fsCase.done
  /\ fsCase.operation.type = "createFile"
  /\ fsCase.policy.filesystem.blockedPaths # << >>
  /\ fsCase.policy.filesystem.allowedPaths # << >>
  /\ fsCase.result.policy = "filesystem.maxFileSize"
  /\ ~fsCase.result.allowed

(***************************************************************************)
(* C21.  Under every policy (each preset, with or without overrides,       *)
(* filesystem and shell disabled included) PolicyEngine.evaluate allows a  *)
(* message operation without requiring approval, and the executor's        *)
(* iteration records one message event with success = TRUE, dispatches     *)
(* nothing and does not suspend.                                           *)
(***************************************************************************)
C21_MessageAlwaysAllowed ==
  msgCase.done =>
    /\ msgCase.result.allowed
    /\ ~msgCase.result.requiresApproval
    /\ Len(msgCase.acc.events) = 1
    /\ msgCase.acc.events[1].type = "message"
    /\ msgCase.acc.events[1].success
    /\ msgCase.acc.events[1].operationId = msgCase.operation.id
    /\ msgCase.acc.status = "completed"
    /\ msgCase.acc.dispatched = << >>

\* a message whose text holds an approval pattern went through an engine with
\* the filesystem disabled
C21_Witness ==
  /\ msgCase.done
  /\ ~msgCase.policy.filesystem.enabled
  /\ msgCase.policy.shell.enabled
  /\ shellMatchesAnyPattern(msgCase.operation.content,
                            msgCase.policy.shell.approvalRequired)
  /\ msgCase.acc.events[1].type = "message"

(***************************************************************************)
(* C22.  For every shell policy and every requested timeout t (absent,     *)
(* zero or positive) getShellTimeout returns a value <= policy.timeout:    *)
(* policy.timeout when t is absent, min(t, policy.timeout) when t is       *)
(* given.                                                                  *)
(***************************************************************************)
Min(a, b) == IF a < b THEN a ELSE b

C22_TimeoutIsMinimum ==
  timeoutCase.done =>
    LET t == timeoutCase.requestedTimeout
        limit == timeoutCase.policy.shell.timeout
    IN /\ timeoutCase.result <= limit
       /\ t.undefined => timeoutCase.result = limit
       /\ ~t.undefined => timeoutCase.result = Min(t.value, limit)

(***************************************************************************)
(* C27.  pathSchema (through validateOperation) and validatePath accept    *)
(* exactly the same strings: those with no leading "/", no ".." segment,   *)
(* no NUL and at most 255 characters.  A string outside the set is         *)
(* rejected; one inside it, such as a file name that merely holds two      *)
(* consecutive dots, is accepted.                                          *)
(***************************************************************************)
\* the segments of a path: the pieces between its "/" characters
RECURSIVE Segments(_)
Segments(path) ==
  IF \A i \in 1..Len(path) : path[i] # "/" THEN << path >>
  ELSE LET cut == CHOOSE i \in 1..Len(path) :
                    path[i] = "/" /\ \A j \in 1..(i - 1) : path[j] # "/"
       IN << SubSeq(path, 1, cut - 1) >>
          \o Segments(SubSeq(path, cut + 1, Len(path)))

HasParentSegment(path) ==
  \E n \in 1..Len(Segments(path)) : Segments(path)[n] = <<".", ".">>

WellFormedPath(path) ==
  /\ (path = << >> \/ path[1] # "/")
  /\ ~HasParentSegment(path)
  /\ \A i \in 1..Len(path) : path[i] # NUL
  /\ Len(path) <= 255

C27_PathChecksAgree ==
  pathCase.done =>
    /\ pathCase.schema = pathCase.valid
    /\ pathCase.schema = WellFormedPath(pathCase.path)

(***************************************************************************)
(* Vocabulary of the filesystem properties.                                *)
(***************************************************************************)
\* the location is the workspace root or below it, segment by segment
InsideWorkspace(location) ==
  LET root == Segments(workspacePath)
      at == Segments(location)
  IN Len(at) >= Len(root) /\ SubSeq(at, 1, Len(root)) = root

\* the location the last call's path names
Target == Location(join(workspacePath, fsLast.path))

\* no entry
Nowhere == << >>

\* the entry a path names for the operating system, which follows the
\* segments one by one from a directory: ".", ".." and "" are followed only
\* from a directory, a name only to an entry of the directory
RECURSIVE Walk(_, _, _)
Walk(d, from, segments) ==
  IF from = Nowhere \/ segments = << >> THEN from
  ELSE IF ~d[from].dir THEN Nowhere
  ELSE LET head == Head(segments)
           below == IF from = <<"/">> THEN from \o head
                    ELSE from \o <<"/">> \o head
       IN IF head = << >> \/ head = <<".">> THEN Walk(d, from, Tail(segments))
          ELSE IF head = <<".", ".">>
          THEN Walk(d, IF from = <<"/">> THEN from ELSE dirname(from),
                    Tail(segments))
          ELSE Walk(d, IF below \in DOMAIN d THEN below ELSE Nowhere,
                    Tail(segments))

\* the last call's path named a regular file of the workspace
TargetWasFile ==
  LET named == Walk(fsLast.before, workspacePath, Segments(fsLast.path))
  IN /\ named # Nowhere
     /\ named = Target
     /\ InsideWorkspace(named)
     /\ ~fsLast.before[named].dir

(***************************************************************************)
(* C23.  createFile on a path where a file already exists returns, with    *)
(* overwrite = false, success = false and the error "File already exists"  *)
(* and leaves the file's bytes (and everything else) as they were; with    *)
(* overwrite = true it replaces the bytes by the content.                  *)
(***************************************************************************)
C23_CreateOverExisting ==
  (fsLast.op = "createFile" /\ TargetWasFile) =>
    IF fsLast.overwrite
    THEN /\ fsLast.result.success
         /\ disk[Target] = RegularFile(fsLast.content)
    ELSE /\ ~fsLast.result.success
         /\ fsLast.result.error = "File already exists"
         /\ disk = fsLast.before

\* a createFile without overwrite met a file with other bytes
C23_Witness ==
  /\ fsLast.op = "createFile" /\ TargetWasFile
  /\ ~fsLast.overwrite
  /\ fsLast.before[Target].bytes # fsLast.content
  /\ fsLast.result.error = "File already exists"

(***************************************************************************)
(* C24.  editFile is all-or-nothing: each edit works on the buffer the     *)
(* edits before it produced and replaces only the first occurrence of its  *)
(* oldContent by its newContent; if an edit's oldContent does not occur    *)
(* the call returns success = false and the stored file is as before; if   *)
(* it returns success = true, editsApplied = len(edits) and the stored     *)
(* file is the result of all the edits.                                    *)
(***************************************************************************)
\* the buffer with the first occurrence of oldContent replaced by newContent
FirstReplaced(buffer, oldContent, newContent) ==
  LET starts == { i \in 1..(Len(buffer) - Len(oldContent) + 1) :
                    \A k \in 1..Len(oldContent) : buffer[i + k - 1] = oldContent[k] }
      at == CHOOSE i \in starts : \A j \in starts : i <= j
  IN [k \in 1..(at - 1) |-> buffer[k]] \o newContent
     \o [k \in 1..(Len(buffer) - at - Len(oldContent) + 1) |->
           buffer[at + Len(oldContent) - 1 + k]]

\* the edits applied in order; `missing` if some oldContent did not occur
RECURSIVE AllEdits(_, _)
AllEdits(buffer, edits) ==
  IF edits = << >> THEN [missing |-> FALSE, buffer |-> buffer]
  ELSE IF ~Occurs(Head(edits).oldContent, buffer)
  THEN [missing |-> TRUE, buffer |-> buffer]
  ELSE AllEdits(FirstReplaced(buffer, Head(edits).oldContent,
                              Head(edits).newContent), Tail(edits))

C24_EditAllOrNothing ==
  (fsLast.op = "editFile" /\ TargetWasFile) =>
    LET expected == AllEdits(fsLast.before[Target].bytes, fsLast.edits)
    IN IF expected.missing
       THEN ~fsLast.result.success /\ disk = fsLast.before
       ELSE /\ fsLast.result.success
            /\ fsLast.result.editsApplied = Len(fsLast.edits)
            /\ disk[Target] = RegularFile(expected.buffer)

(***************************************************************************)
(* C25.  For every path that passes protocol validation, every location    *)
(* the sandbox reads or writes is the workspace root or a descendant of    *)
(* it, and the normalized physical path holds no ".." segment.             *)
(***************************************************************************)
C25_ValidPathStaysInside ==
  (fsLast.op # "none" /\ pathSchema(fsLast.path)) =>
    /\ InsideWorkspace(Target)
    /\ ~HasParentSegment(join(workspacePath, fsLast.path))
    /\ \A location \in fsLast.result.read \cup fsLast.result.written :
         InsideWorkspace(location) /\ ~HasParentSegment(location)

\* a valid path with a "." segment was written below the workspace root
C25_Witness ==
  /\ fsLast.op = "createFile" /\ pathSchema(fsLast.path)
  /\ \E n \in 1..Len(Segments(fsLast.path)) : Segments(fsLast.path)[n] = <<".">>
  /\ fsLast.result.success
  /\ Target \in fsLast.result.written

(***************************************************************************)
(* C26.  Every sandbox filesystem primitive, called with any path string,  *)
(* refuses a path whose joined location is not the workspace root or a     *)
(* descendant of it: it returns the failure "Path is outside workspace"    *)
(* and reads, writes, lists or deletes nothing outside the workspace, a    *)
(* sibling directory whose name starts with the workspace's included.      *)
(***************************************************************************)
C26_OutsidePathRefused ==
  fsLast.op # "none" =>
    /\ ~InsideWorkspace(Target) =>
         /\ ~fsLast.result.success
         /\ fsLast.result.error = "Path is outside workspace"
         /\ disk = fsLast.before
    /\ \A location \in fsLast.result.read \cup fsLast.result.written :
         InsideWorkspace(location)

(***************************************************************************)
(* C28.  Destroy is idempotent: once a SpaceService.destroy(id) of a       *)
(* created space has completed, a further destroy of the same space (SpaceService.destroy,   *)
(* or Sandbox.destroy on its sandbox) completes without error and changes  *)
(* nothing: no registry entry for the id, the persisted status still       *)
(* destroyed, the workspace directory still absent, and no second          *)
(* container.stop or container.remove.                                     *)
(***************************************************************************)
C28_DestroyIdempotent ==
  LET before == space.last.before
      after == space.spaces[space.last.id]
  IN (space.last.op \in {"SpaceService.destroy", "Sandbox.destroy"}
      /\ before.destroyed /\ before.status # "none") =>
       /\ ~space.last.threw
       /\ after = [before EXCEPT !.calls = @ + 1]
       /\ ~after.sandboxes /\ ~after.policyEngines
       /\ ~after.workspace
       /\ after.status = "destroyed"
       /\ after.stops = 1 /\ after.removes = 1

\* a created space was destroyed, and then destroyed again
C28_Witness ==
  /\ space.last.op = "SpaceService.destroy"
  /\ space.last.before.destroyed
  /\ space.last.before.status = "destroyed"
  /\ space.spaces[space.last.id].stops = 1
  /\ ~space.last.threw

(***************************************************************************)
(* C29.  RunService.create for a space that has no Sandbox or PolicyEngine *)
(* in the registry, and RunService.resume for a run whose space was        *)
(* destroyed meanwhile, fail with an error: no operation is dispatched,    *)
(* create persists no run, and resume leaves the stored run unchanged.     *)
(***************************************************************************)
C29_MissingSpaceFails ==
  [][(~registered /\ last'.call \in {"create", "resume"}) =>
       /\ last'.outcome # "ok"
       /\ last'.dispatched = << >>
       /\ sandboxLog' = sandboxLog
       /\ runs' = runs
       /\ (last'.call = "resume" /\ last'.runId \in DOMAIN runs
           /\ runs[last'.runId].status = "awaiting_approval")
            => last'.outcome = "Space not found or not initialized"]_vars

\* a run awaiting approval was resumed after its space was destroyed, and
\* the resume failed
C29_Witness ==
  /\ ~registered
  /\ last.call = "resume"
  /\ last.runId \in DOMAIN runs
  /\ runs[last.runId].status = "awaiting_approval"
  /\ last.outcome = "Space not found or not initialized"
  /\ sandboxLog[last.runId] = << >>

(***************************************************************************)
(* C30.  A persisted run is immutable except for its status and appended   *)
(* events: whatever resume and cancel calls are made, its operations stay  *)
(* the vector submitted at create, and every write of the row keeps the    *)
(* events stored before it as a prefix of the events stored after it       *)
(* (events are appended, never removed, reordered or rewritten).           *)
(***************************************************************************)
C30_RunAppendOnly ==
  [][\A id \in DOMAIN runs :
       /\ id \in DOMAIN runs'
       /\ runs'[id].operations = runs[id].operations
       /\ Len(runs'[id].events) >= Len(runs[id].events)
       /\ SubSeq(runs'[id].events, 1, Len(runs[id].events)) = runs[id].events]_vars

(***************************************************************************)
(* C35.  In every reachable state, a persisted run has a pendingApproval   *)
(* if and only if its status is awaiting_approval; cancel and a resume     *)
(* that completes the run leave no pendingApproval behind.                 *)
(***************************************************************************)
C35_PendingIffAwaiting ==
  \A id \in DOMAIN runs :
    (~runs[id].pendingApproval.isNull) <=> (runs[id].status = "awaiting_approval")

(***************************************************************************)
(* C36.  completed and cancelled are terminal: once a run's persisted      *)
(* status is completed no later call changes its status or completedAt,    *)
(* and a cancelled run never becomes completed or awaiting_approval.       *)
(***************************************************************************)
C36_TerminalStatuses ==
  [][\A id \in DOMAIN runs :
       /\ runs[id].status = "completed" =>
            /\ runs'[id].status = "completed"
            /\ runs'[id].completedAt = runs[id].completedAt
       /\ runs[id].status = "cancelled" =>
            runs'[id].status \notin {"completed", "awaiting_approval"}]_vars

(***************************************************************************)
(* C37.  Every run persisted in awaiting_approval can be resumed with the  *)
(* id it advertises: a resume whose approval.operationId equals the run's  *)
(* pendingApproval.operationId is accepted and applies to the operation at *)
(* which the run suspended, also when that operation has no id or shares   *)
(* its id with another operation of the run.                               *)
(***************************************************************************)
C37_AdvertisedIdResumes ==
  \A id \in DOMAIN runs :
    (runs[id].status = "awaiting_approval" /\ SpaceFound) =>
      LET advertised == runs[id].pendingApproval.operationId
          approval == [operationId |-> advertised, decision |-> "approved",
                       reason |-> NoReason]
      IN /\ ResumeAccepts(id, approval)
         /\ findIndex(runs[id].operations, advertised) = pendingAt[id]

(***************************************************************************)
(* C38.  A cancel that overlaps an in-flight resume of the same run wins:  *)
(* once cancel has written status cancelled, the resume's final write does *)
(* not replace cancelled by completed or awaiting_approval and appends no  *)
(* events to the cancelled run.                                            *)
(***************************************************************************)
C38_CancelWinsOverResume ==
  [][\A c \in CallIds :
       (/\ calls[c].kind = "resume" /\ calls[c].pc = "write"
        /\ calls'[c].pc = "done"
        /\ runs[calls[c].runId].status = "cancelled") =>
         /\ runs'[calls[c].runId].status = "cancelled"
         /\ runs'[calls[c].runId].events = runs[calls[c].runId].events]_vars

(***************************************************************************)
(* C39.  In every reachable state of SpaceService, also after a create     *)
(* that failed part-way, the sandboxes map and the policyEngines map have  *)
(* the same keys, and every id in them has a persisted space record whose  *)
(* status is not destroyed.                                                *)
(***************************************************************************)
C39_RegistryConsistent ==
  \A id \in SpaceIds :
    LET s == space.spaces[id]
    IN /\ s.sandboxes <=> s.policyEngines
       /\ (s.sandboxes \/ s.policyEngines) => s.status \notin {"none", "destroyed"}

(***************************************************************************)
(* C40.  After Sandbox.destroy has completed no primitive of the sandbox   *)
(* has an effect: createFile, editFile and deleteFile called on the        *)
(* destroyed sandbox do not succeed and do not recreate the deleted        *)
(* workspace directory.                                                    *)
(***************************************************************************)
C40_NoEffectAfterDestroy ==
  (/\ fsLast.op \in {"createFile", "editFile", "deleteFile"}
   /\ workspacePath \notin DOMAIN fsLast.before) =>
     /\ ~fsLast.result.success
     /\ workspacePath \notin DOMAIN disk
     /\ disk = fsLast.before

(***************************************************************************)
(* C31.  SpaceService.destroy removes the space from the registry before   *)
(* it starts destroying the sandbox: at no point during or after a destroy *)
(* does getSandbox(id) return a sandbox whose destruction has begun.       *)
(***************************************************************************)
C31_UnregisteredBeforeDestroyed ==
  box.sandboxes => box.destroy = "idle"

(***************************************************************************)
(* C32.  Once a Sandbox has entered status error because an exec could not *)
(* be started, every later exec on it returns a failure and the status     *)
(* stays error until destroy (running while a call is in flight is let     *)
(* pass here); a successful exec never moves it back to ready.             *)
(***************************************************************************)
C32_ErrorIsSticky ==
  (box.erred /\ box.destroy = "idle") =>
    /\ box.status \in (IF box.pc = "idle" THEN {"error"} ELSE {"error", "running"})
    /\ box.result # "success"

(***************************************************************************)
(* C33.  Every Sandbox.exec call eventually returns a shell result: the    *)
(* command ends, or the timeout elapses, the exec is killed and the result *)
(* is returned; no path of the timeout handler leaves the call pending.    *)
(***************************************************************************)
C33_ExecReturns ==
  (box.pc # "idle") ~> (box.pc = "idle")

(***************************************************************************)
(* C34.  A shell timeout kills only the timed-out exec: after a shell      *)
(* operation timed out the space's container is still running, so a later  *)
(* shell operation is still started in it.                                 *)
(***************************************************************************)
C34_ContainerSurvivesTimeout ==
  (box.timeouts > 0 /\ box.destroy = "idle") => box.docker = "running"

====
